---------------------------- MODULE Spec2Model ----------------------------
(***************************************************************************)
(* The preview session supervisor of GoCode (services/preview.go):         *)
(* PreviewService with its registry of sessions, StartPreview,             *)
(* StopPreview, PreviewStatus, Shutdown, the per-session monitor, the      *)
(* dev-server launch race and the two tunnel backends.                     *)
(*                                                                         *)
(* Strings the code formats, parses or normalises (registry keys, tunnel   *)
(* names) are sequences of one-character strings, so that Sprintf,         *)
(* SplitN, ParseInt, TrimSpace and ToLower are computed, not assumed.      *)
(***************************************************************************)
EXTENDS Integers, Sequences, FiniteSets, TLC

(***************************************************************************)
(* Bounds of the model.                                                    *)
(***************************************************************************)
\* Calls the clients make over a run (StartPreview, StopPreview,
\* PreviewStatus, Shutdown); the l-th StartPreview owns launch l.
MaxCalls == 2

\* Lines the dev server writes in the launch that is modelled in detail.
MaxLines == 2

\* make(chan string, 64): the capacity of a launch's lines channel.
LinesCap == 64

\* The lines a pipe of a child holds before the child's write waits.
PipeCap == 2

-----------------------------------------------------------------------------
(***************************************************************************)
(* Strings.                                                                *)
(***************************************************************************)
Digits == <<"0", "1", "2", "3", "4", "5", "6", "7", "8", "9">>

UpperCase == <<"A", "B", "C", "D", "E", "F", "G", "H", "I", "J", "K", "L", "M",
               "N", "O", "P", "Q", "R", "S", "T", "U", "V", "W", "X", "Y", "Z">>

LowerCase == <<"a", "b", "c", "d", "e", "f", "g", "h", "i", "j", "k", "l", "m",
               "n", "o", "p", "q", "r", "s", "t", "u", "v", "w", "x", "y", "z">>

\* unicode.IsSpace on the characters the inputs use.
IsSpace(c) == c \in {" ", "\t", "\n", "\r"}

\* strings.ToLower, character by character.
ToLower(s) ==
    [i \in 1..Len(s) |->
        IF \E k \in 1..26 : UpperCase[k] = s[i]
        THEN LowerCase[CHOOSE k \in 1..26 : UpperCase[k] = s[i]]
        ELSE s[i]]

\* strings.TrimSpace: the longest substring without leading or trailing space.
TrimSpace(s) ==
    LET keep == {i \in 1..Len(s) : ~IsSpace(s[i])}
    IN  IF keep = {} THEN <<>>
        ELSE LET lo == CHOOSE i \in keep : \A j \in keep : i <= j
                 hi == CHOOSE i \in keep : \A j \in keep : j <= i
             IN  SubSeq(s, lo, hi)

S_ngrok == <<"n", "g", "r", "o", "k">>
S_tailscale == <<"t", "a", "i", "l", "s", "c", "a", "l", "e">>
S_empty == <<>>

-----------------------------------------------------------------------------
(***************************************************************************)
(* pickTunnel: the backend for a launch.  env is the value of              *)
(* PREVIEW_TUNNEL ("" when unset), path the set of names exec.LookPath     *)
(* resolves.  The result is [tunnel, err]; err = "" is Go's nil error.     *)
(***************************************************************************)
LookPath(path, bin) == bin \in path

\* The precedence with the first two sources swapped.
pickTunnelEnvFirst(override, env, path) ==
    LET tunnel == ToLower(TrimSpace(env))
        choice == ToLower(TrimSpace(override))
    IN  IF tunnel # S_empty
        THEN IF tunnel = S_ngrok \/ tunnel = S_tailscale
             THEN [tunnel |-> tunnel, err |-> ""]
             ELSE [tunnel |-> S_empty, err |-> "unknown PREVIEW_TUNNEL"]
        ELSE IF choice # S_empty
        THEN IF choice = S_ngrok \/ choice = S_tailscale
             THEN [tunnel |-> choice, err |-> ""]
             ELSE [tunnel |-> S_empty, err |-> "unknown tunnel"]
        ELSE IF LookPath(path, S_ngrok)
        THEN [tunnel |-> S_ngrok, err |-> ""]
        ELSE IF LookPath(path, S_tailscale)
        THEN [tunnel |-> S_tailscale, err |-> ""]
        ELSE [tunnel |-> S_empty, err |-> "no tunnel binary found"]

pickTunnel(override, env, path) ==
    IF TrimSpace(override) # S_empty
    THEN LET choice == ToLower(TrimSpace(override))
         IN  IF choice = S_ngrok \/ choice = S_tailscale
             THEN [tunnel |-> choice, err |-> ""]
             ELSE [tunnel |-> S_empty, err |-> "unknown tunnel"]
    ELSE LET tunnel == ToLower(TrimSpace(env))
         IN  IF tunnel # S_empty
             THEN IF tunnel = S_ngrok \/ tunnel = S_tailscale
                  THEN [tunnel |-> tunnel, err |-> ""]
                  ELSE [tunnel |-> S_empty, err |-> "unknown PREVIEW_TUNNEL"]
             ELSE IF LookPath(path, S_ngrok)
                  THEN [tunnel |-> S_ngrok, err |-> ""]
                  ELSE IF LookPath(path, S_tailscale)
                       THEN [tunnel |-> S_tailscale, err |-> ""]
                       ELSE [tunnel |-> S_empty, err |-> "no tunnel binary found"]

-----------------------------------------------------------------------------
(***************************************************************************)
(* Registry keys: topicKey is fmt.Sprintf("%d:%d", chatID, threadID), and  *)
(* Shutdown takes a key apart again with SplitN and ParseInt/Atoi.         *)
(***************************************************************************)
RECURSIVE NatToStr(_)
NatToStr(n) ==
    IF n < 10 THEN <<Digits[n + 1]>>
    ELSE NatToStr(n \div 10) \o <<Digits[(n % 10) + 1]>>

\* The verb %d.
FormatInt(n) == IF n < 0 THEN <<"-">> \o NatToStr(-n) ELSE NatToStr(n)

\* The key with the separator forgotten.
topicKeyNoSeparator(chatID, threadID) == FormatInt(chatID) \o FormatInt(threadID)

topicKey(chatID, threadID) == FormatInt(chatID) \o <<":">> \o FormatInt(threadID)

\* strings.SplitN(key, ":", 2): cut at the first separator, if there is one.
SplitN2(s) ==
    LET at == {i \in 1..Len(s) : s[i] = ":"}
    IN  IF at = {} THEN <<s>>
        ELSE LET cut == CHOOSE i \in at : \A j \in at : i <= j
             IN  <<SubSeq(s, 1, cut - 1), SubSeq(s, cut + 1, Len(s))>>

DigitVal(c) == (CHOOSE k \in 1..10 : Digits[k] = c) - 1

IsDigit(c) == \E k \in 1..10 : Digits[k] = c

RECURSIVE DigitsVal(_)
DigitsVal(s) ==
    IF s = <<>> THEN 0
    ELSE 10 * DigitsVal(SubSeq(s, 1, Len(s) - 1)) + DigitVal(s[Len(s)])

\* strconv.ParseInt(s, 10, 64) and strconv.Atoi with the error dropped, as
\* Shutdown calls them: a syntax error leaves 0.
ParseInt(s) ==
    LET signed == s # <<>> /\ s[1] \in {"-", "+"}
        body == IF signed THEN Tail(s) ELSE s
    IN  IF body = <<>> \/ \E i \in 1..Len(body) : ~IsDigit(body[i]) THEN 0
        ELSE IF signed /\ s[1] = "-" THEN 0 - DigitsVal(body)
        ELSE DigitsVal(body)

-----------------------------------------------------------------------------
(***************************************************************************)
(* The inputs of the supervisor.                                           *)
(***************************************************************************)
\* Topic identities (chat ID, thread ID); group chats have negative IDs.
Topics == {<<-7, 12>>, <<-71, 2>>}

\* Workspace directories; only the first holds a package.json.
RepoPaths == {"", "/ws/app", "/ws/bare"}

HasManifest(repoPath) == repoPath = "/ws/app"

\* A tunnel name the supervisor does not know.
S_bore == <<"b", "o", "r", "e">>

\* Tunnel overrides a caller passes.
Overrides == {S_empty, S_tailscale, S_bore}

\* Environments: PREVIEW_TUNNEL, NGROK_BIN, TAILSCALE_BIN and the names
\* exec.LookPath resolves.
Envs ==
    { [PREVIEW_TUNNEL |-> S_empty, NGROK_BIN |-> S_empty, TAILSCALE_BIN |-> S_empty,
       path |-> {S_ngrok, S_tailscale}],
      [PREVIEW_TUNNEL |-> S_ngrok, NGROK_BIN |-> S_empty, TAILSCALE_BIN |-> S_empty,
       path |-> {S_tailscale}] }

\* ngrok's log, as json.Unmarshal reads it: whether a line is a JSON object,
\* and the values of its url and msg members.
S_https == <<"h", "t", "t", "p", "s", ":", "/", "/">>
S_http == <<"h", "t", "t", "p", ":", "/", "/">>
S_host_a == <<"a", ".", "n", "g", "r", "o", "k", ".", "a", "p", "p">>
S_host_b == <<"b", ".", "n", "g", "r", "o", "k", ".", "a", "p", "p">>
S_host_c == <<"c", ".", "n", "g", "r", "o", "k", ".", "a", "p", "p">>
S_started_tunnel ==
    <<"s", "t", "a", "r", "t", "e", "d", " ", "t", "u", "n", "n", "e", "l">>
S_no_auth == <<"n", "o", " ", "a", "u", "t", "h">>

\* A member of the payload: absent, a string, or a value of another type.
Absent == [t |-> "absent", s |-> S_empty]
Str(s) == [t |-> "string", s |-> s]
Number == [t |-> "number", s |-> S_empty]

\* strings.HasPrefix
HasPrefix(s, prefix) ==
    /\ Len(s) >= Len(prefix)
    /\ SubSeq(s, 1, Len(prefix)) = prefix

\* extractNgrokURL: "" for a line that is not a JSON object; the url member
\* if it is a string that starts with https://; the same test once more for
\* a line whose msg is "started tunnel"; "" otherwise.
extractNgrokURL(line) ==
    IF ~line.json
    THEN S_empty
    ELSE IF line.url.t = "string" /\ HasPrefix(line.url.s, S_https)
    THEN line.url.s
    ELSE IF /\ line.msg = Str(S_started_tunnel)
            /\ line.url.t = "string" /\ HasPrefix(line.url.s, S_https)
    THEN line.url.s
    ELSE S_empty

\* Lines of ngrok's output: plain text that mentions a URL, the log entry of
\* a started tunnel, an entry with an https URL and no msg, entries whose
\* url is http or a number, and an entry without url.
NgrokLogLines ==
    { [json |-> FALSE, url |-> Str(S_https \o S_host_c), msg |-> Absent],
      [json |-> TRUE, url |-> Str(S_https \o S_host_a),
       msg |-> Str(S_started_tunnel)],
      [json |-> TRUE, url |-> Str(S_https \o S_host_b), msg |-> Absent],
      [json |-> TRUE, url |-> Str(S_http \o S_host_a),
       msg |-> Str(S_started_tunnel)],
      [json |-> TRUE, url |-> Number, msg |-> Str(S_started_tunnel)],
      [json |-> TRUE, url |-> Absent, msg |-> Str(S_no_auth)] }

\* What the extractors make of the children's output: the ports extractPort
\* returns for the dev server's lines, the URLs extractNgrokURL returns for
\* ngrok's.
DevPorts == {3000}

NgrokURLs == {extractNgrokURL(line) : line \in NgrokLogLines} \ {S_empty}

\* A DNS name of the machine in the tailnet.
DNSName == <<"b", "o", "x", ".", "t", "s", ".", "n", "e", "t">>

\* Self.DNSName in the output of `tailscale status --json`: missing or there.
DNSNames == {S_empty, DNSName}

\* "https://" + payload.Self.DNSName + "/"
PublicURL(name) == S_https \o name \o <<"/">>

\* The URL tailscalePublicURL builds of the machine's name.
TailscaleURL == PublicURL(DNSName)

Launches == 1..MaxCalls

Clients == {<<"client", 1>>, <<"client", 2>>}

Monitor(l) == <<"monitor", l>>

Threads == Clients \cup {Monitor(l) : l \in Launches}

NoThread == <<"none", 0>>

-----------------------------------------------------------------------------
(***************************************************************************)
(* The state.                                                              *)
(***************************************************************************)
VARIABLES
    sessions,   \* svc.sessions: a map from keys to sessions (launch numbers)
    mu,         \* svc.mu: the thread holding it, NoThread when free
    heap,       \* the PreviewSession objects StartPreview has built
    pc,         \* where each thread is
    frame,      \* the arguments, locals and result of each thread's call
    calls,      \* calls made so far
    starts,     \* StartPreview calls among them
    devProc,    \* per launch: the dev-server process and its context
    exitCh,     \* per launch: the dev server's exit channel
    tunProc,    \* per launch: the ngrok process and its context
    ts,         \* tailscale's ambient configuration and the commands run
    env,        \* the process environment
    pick,       \* pickTunnel applied on its own: inputs and result
    ext,        \* extractPort applied on its own: the line and the result
    race        \* one startDevServer with its goroutines and channels

vars == <<sessions, mu, heap, pc, frame, calls, starts, devProc, exitCh,
          tunProc, ts, env, pick, ext, race>>

\* A process with its cancellable context: st is "none" (not spawned),
\* "run" or "dead"; cancelled and killed say which of the two ways to end
\* it have been used.
NoProc == [st |-> "none", cancelled |-> FALSE, killed |-> FALSE]

NoSession == [ChatID |-> 0, ThreadID |-> 0, RepoPath |-> "", Tunnel |-> S_empty,
              URL |-> S_empty, Port |-> 0, DevCmd |-> 0, DevCancel |-> 0,
              DevExitCh |-> 0, TunnelCmd |-> 0, TunnelCancel |-> 0]

NoResult == [op |-> "none", topic |-> <<0, 0>>, l |-> 0, err |-> "",
             session |-> 0, found |-> FALSE]

NoFrame == [op |-> "none", topic |-> <<0, 0>>, repoPath |-> "", override |-> S_empty,
            l |-> 0, port |-> 0, tunnel |-> S_empty, url |-> S_empty, session |-> 0,
            keys |-> <<>>, i |-> 0, ret |-> "", result |-> NoResult]

NoPick == [override |-> S_empty, env |-> S_empty, path |-> {}, done |-> FALSE,
           out |-> [tunnel |-> S_empty, err |-> ""]]

\* extractPort before it is applied to a line.
NoExt == [line |-> <<>>, done |-> FALSE, out |-> 0]

\* One launch of startDevServer, before it is called.  Lines are kept as the
\* port they announce, 0 for none.  child is the process and status what
\* cmd.Wait returns for it; toWrite are the lines it has yet to write;
\* stdout and stderr are the two pipes; scan says which scanOutput still runs;
\* lines, portCh, errCh and exitCh are the channels, an empty buffer being
\* <<>>, 0 or "empty"; sel is where the calling goroutine is; chosen is the
\* case its select took and received the value it got; delivered lists the
\* events in the order they were put on their channels; result is what
\* startDevServer returns.
NoRace ==
    [kind |-> "none", child |-> "none", status |-> "nil", toWrite |-> <<>>,
     stdout |-> <<>>, stderr |-> <<>>,
     scan |-> [stdout |-> "run", stderr |-> "run"],
     lines |-> <<>>, linesClosed |-> FALSE, consumer |-> "run",
     portCh |-> 0, exitCh |-> "empty", exitClosed |-> FALSE,
     waiter |-> "wait", forwarder |-> "run", errCh |-> "empty",
     sel |-> "idle", timer |-> "off", chosen |-> "none", received |-> 0,
     cancelled |-> FALSE, killed |-> FALSE,
     delivered |-> <<>>, result |-> [port |-> 0, err |-> ""],
     monitor |-> "none", got |-> [err |-> "nil", ok |-> FALSE],
     logged |-> FALSE,
     urlCh |-> <<>>, tunnel |-> [url |-> <<>>, cmd |-> FALSE,
                                 cancel |-> FALSE, err |-> ""]]

Init ==
    /\ sessions = [k \in {} |-> 0]
    /\ mu = NoThread
    /\ heap = [l \in Launches |-> NoSession]
    /\ pc = [t \in Threads |-> "idle"]
    /\ frame = [t \in Threads |-> NoFrame]
    /\ calls = 0
    /\ starts = 0
    /\ devProc = [l \in Launches |-> NoProc]
    /\ exitCh = [l \in Launches |-> "open"]
    /\ tunProc = [l \in Launches |-> NoProc]
    /\ ts = [serve |-> FALSE, funnel |-> FALSE, resets |-> 0]
    /\ env \in Envs
    /\ pick = NoPick
    /\ ext = NoExt
    /\ race = NoRace

-----------------------------------------------------------------------------
(***************************************************************************)
(* Helpers of the actions.                                                 *)
(***************************************************************************)
\* The map lookup svc.sessions[key]: nil (0) for a key that is not there.
Lookup(key) == IF key \in DOMAIN sessions THEN sessions[key] ELSE 0

\* The sessions the registry holds.
Registered == {sessions[k] : k \in DOMAIN sessions}

\* ctx.CancelFunc of a CommandContext: the context is done, and exec kills
\* the process if it still runs.
Cancel(p) == [p EXCEPT !.cancelled = TRUE,
                       !.st = IF @ = "run" THEN "dead" ELSE @]

\* os.Process.Kill: ends a running process; fails, ignored, on a finished one.
Kill(p) == [p EXCEPT !.killed = TRUE,
                     !.st = IF @ = "run" THEN "dead" ELSE @]

\* The waiter of launch l, exitCh <- cmd.Wait(); close(exitCh), when the
\* dev server is cancelled or killed: a process that ran leaves an error.
Killed(l) == [exitCh EXCEPT ![l] = IF devProc[l].st = "run" THEN "err" ELSE @]

KeyOf(t) == topicKey(frame[t].topic[1], frame[t].topic[2])

\* A call of a client returns: the locals go, the result stays.
Return(t, res) ==
    /\ pc' = [pc EXCEPT ![t] = "done"]
    /\ frame' = [frame EXCEPT ![t] = [NoFrame EXCEPT !.result = res]]

StartResult(t, err, session) ==
    [op |-> "start", topic |-> frame[t].topic, l |-> frame[t].l, err |-> err,
     session |-> session, found |-> FALSE]

\* The error path that leaves the dev server alone.
StartFailsLeavesDev(t, err) ==
    /\ UNCHANGED <<devProc, exitCh>>
    /\ Return(t, StartResult(t, err, 0))

\* StartPreview's error path once the dev server runs: devCancel(), then
\* devCmd.Process.Kill(), then the error.  The launch's waiter and forwarder
\* empty and close the exit channel, which nobody else holds.
StartFails(t, err) ==
    /\ devProc' = [devProc EXCEPT ![frame[t].l] = Kill(Cancel(@))]
    /\ exitCh' = [exitCh EXCEPT ![frame[t].l] = "closed"]
    /\ Return(t, StartResult(t, err, 0))

-----------------------------------------------------------------------------
(***************************************************************************)
(* StartPreview(chatID, threadID, repoPath, tunnelOverride).               *)
(***************************************************************************)
\* The call, up to the empty-path check.
StartPreview(t, topic, repoPath, override) ==
    /\ pc[t] \in {"idle", "done"}
    /\ calls < MaxCalls
    /\ starts < MaxCalls
    /\ calls' = calls + 1
    /\ starts' = starts + 1
    /\ LET f == [NoFrame EXCEPT !.op = "start", !.topic = topic,
                                !.repoPath = repoPath, !.override = override,
                                !.l = starts + 1]
       IN  IF repoPath = ""
           THEN /\ pc' = [pc EXCEPT ![t] = "done"]
                /\ frame' = [frame EXCEPT ![t] = [NoFrame EXCEPT !.result =
                       [op |-> "start", topic |-> topic, l |-> starts + 1,
                        err |-> "repo path is empty", session |-> 0,
                        found |-> FALSE]]]
           ELSE /\ pc' = [pc EXCEPT ![t] = "start_lock"]
                /\ frame' = [frame EXCEPT ![t] = f]
    /\ UNCHANGED <<sessions, mu, heap, devProc, exitCh, tunProc, ts, env, pick, ext, race>>

\* svc.mu.Lock() of any call: pc from -> to.
Lock(t, from, to) ==
    /\ pc[t] = from
    /\ mu = NoThread
    /\ mu' = t
    /\ pc' = [pc EXCEPT ![t] = to]
    /\ UNCHANGED <<sessions, heap, frame, calls, starts, devProc, exitCh,
                   tunProc, ts, env, pick, ext, race>>

StartPreview_Lock(t) == Lock(t, "start_lock", "start_check")

\* The registry check that launches whatever it finds.
StartPreview_CheckBlind(t) ==
    /\ pc[t] = "start_check"
    /\ mu = t
    /\ mu' = NoThread
    /\ pc' = [pc EXCEPT ![t] = "dev_spawn"]
    /\ UNCHANGED <<sessions, heap, frame, calls, starts, devProc, exitCh,
                   tunProc, ts, env, pick, ext, race>>

\* The registry check that unlocks only on the early return.
StartPreview_CheckKeepsLock(t) ==
    /\ pc[t] = "start_check"
    /\ mu = t
    /\ LET session == Lookup(KeyOf(t))
       IN  IF session # 0
           THEN /\ mu' = NoThread
                /\ Return(t, StartResult(t, "", session))
           ELSE /\ mu' = t
                /\ pc' = [pc EXCEPT ![t] = "dev_spawn"]
                /\ frame' = frame
    /\ UNCHANGED <<sessions, heap, calls, starts, devProc, exitCh, tunProc,
                   ts, env, pick, ext, race>>

\* The registry check, under the mutex: an existing session is returned.
StartPreview_Check(t) ==
    /\ pc[t] = "start_check"
    /\ mu = t
    /\ mu' = NoThread
    /\ LET session == Lookup(KeyOf(t))
       IN  IF session # 0
           THEN Return(t, StartResult(t, "", session))
           ELSE /\ pc' = [pc EXCEPT ![t] = "dev_spawn"]
                /\ frame' = frame
    /\ UNCHANGED <<sessions, heap, calls, starts, devProc, exitCh, tunProc,
                   ts, env, pick, ext, race>>

-----------------------------------------------------------------------------
(***************************************************************************)
(* startDevServer(repoPath): the manifest check, the spawn, and the select *)
(* over portCh, errCh and the 20-second timer.  What the goroutines of the *)
(* launch put on the three channels is the environment of the select: a   *)
(* case is taken when the child and the goroutines have made it ready.     *)
(***************************************************************************)
\* The launch that spawns without looking for the manifest.
startDevServer_SpawnUnchecked(t) ==
    /\ pc[t] = "dev_spawn"
    /\ LET l == frame[t].l
       IN  \/ /\ devProc' = [devProc EXCEPT ![l].cancelled = TRUE]
              /\ Return(t, StartResult(t, "spawn failed", 0))
           \/ /\ devProc' = [devProc EXCEPT ![l].st = "run"]
              /\ pc' = [pc EXCEPT ![t] = "dev_select"]
              /\ frame' = frame
    /\ UNCHANGED <<sessions, mu, heap, calls, starts, exitCh, tunProc, ts, env,
                   pick, ext, race>>

\* os.Stat(repoPath/package.json) fails: the error, before anything is spawned.
startDevServer_Spawn(t) ==
    /\ pc[t] = "dev_spawn"
    /\ LET l == frame[t].l
       IN  IF ~HasManifest(frame[t].repoPath)
           THEN /\ Return(t, StartResult(t, "package.json not found", 0))
                /\ UNCHANGED devProc
           ELSE \/ \* StdoutPipe, StderrPipe or cmd.Start fails: devCancel()
                   /\ devProc' = [devProc EXCEPT ![l].cancelled = TRUE]
                   /\ Return(t, StartResult(t, "spawn failed", 0))
                \/ \* the child runs
                   /\ devProc' = [devProc EXCEPT ![l].st = "run"]
                   /\ pc' = [pc EXCEPT ![t] = "dev_select"]
                   /\ frame' = frame
    /\ UNCHANGED <<sessions, mu, heap, calls, starts, exitCh, tunProc, ts, env,
                   pick, ext, race>>

\* The port case that registers the session as soon as the dev server is up.
startDevServer_PortRegisters(t, port) ==
    /\ pc[t] = "dev_select"
    /\ frame' = [frame EXCEPT ![t].port = port]
    /\ pc' = [pc EXCEPT ![t] = "pick"]
    /\ heap' = [heap EXCEPT ![frame[t].l] =
                   [NoSession EXCEPT !.ChatID = frame[t].topic[1],
                                     !.ThreadID = frame[t].topic[2],
                                     !.RepoPath = frame[t].repoPath,
                                     !.Port = port,
                                     !.DevCmd = frame[t].l,
                                     !.DevCancel = frame[t].l,
                                     !.DevExitCh = frame[t].l]]
    /\ sessions' = [k \in DOMAIN sessions \cup {KeyOf(t)} |->
                        IF k = KeyOf(t) THEN frame[t].l ELSE sessions[k]]
    /\ UNCHANGED <<mu, calls, starts, devProc, exitCh, tunProc, ts, env, pick, ext, race>>

\* The readiness case that takes whatever extractPort returned, 0 included.
startDevServer_PortUnfiltered(t, port) ==
    /\ pc[t] = "dev_select"
    /\ frame' = [frame EXCEPT ![t].port = port]
    /\ pc' = [pc EXCEPT ![t] = "pick"]
    /\ UNCHANGED <<sessions, mu, heap, calls, starts, devProc, exitCh, tunProc,
                   ts, env, pick, ext, race>>

\* case port := <-portCh: a line of the child yielded a port
startDevServer_Port(t, port) ==
    /\ pc[t] = "dev_select"
    /\ port # 0
    /\ frame' = [frame EXCEPT ![t].port = port]
    /\ pc' = [pc EXCEPT ![t] = "pick"]
    /\ UNCHANGED <<sessions, mu, heap, calls, starts, devProc, exitCh, tunProc,
                   ts, env, pick, ext, race>>

\* The failing exit taken for readiness: the launch goes on without a port.
startDevServer_ErrGoesOn(t) ==
    /\ pc[t] = "dev_select"
    /\ devProc' = [devProc EXCEPT ![frame[t].l] = [@ EXCEPT !.st = "dead"]]
    /\ exitCh' = [exitCh EXCEPT ![frame[t].l] = "closed"]
    /\ pc' = [pc EXCEPT ![t] = "pick"]
    /\ UNCHANGED <<sessions, mu, heap, frame, calls, starts, tunProc, ts, env,
                   pick, ext, race>>

\* case err := <-errCh: the child ended with a failure, the waiter put it on
\* exitCh and closed it, the forwarder moved it to errCh; then devCancel()
\* and the early-exit error
startDevServer_Err(t) ==
    /\ pc[t] = "dev_select"
    /\ devProc' = [devProc EXCEPT ![frame[t].l] = Cancel([@ EXCEPT !.st = "dead"])]
    /\ exitCh' = [exitCh EXCEPT ![frame[t].l] = "closed"]
    /\ Return(t, StartResult(t, "dev server exited early", 0))
    /\ UNCHANGED <<sessions, mu, heap, calls, starts, tunProc, ts, env, pick, ext, race>>

\* The timeout that only reports.
startDevServer_TimeoutNoKill(t) ==
    /\ pc[t] = "dev_select"
    /\ Return(t, StartResult(t, "timed out waiting for dev server port", 0))
    /\ UNCHANGED <<sessions, mu, heap, calls, starts, devProc, exitCh, tunProc,
                   ts, env, pick, ext, race>>

\* case <-time.After(20 * time.Second): devCancel(), Kill, the timeout error
startDevServer_Timeout(t) ==
    /\ pc[t] = "dev_select"
    /\ devProc' = [devProc EXCEPT ![frame[t].l] = Kill(Cancel(@))]
    /\ exitCh' = [exitCh EXCEPT ![frame[t].l] = "closed"]
    /\ Return(t, StartResult(t, "timed out waiting for dev server port", 0))
    /\ UNCHANGED <<sessions, mu, heap, calls, starts, tunProc, ts, env, pick, ext, race>>

\* The dev server ends by itself, with status 0 ("nil") or not ("err"), and
\* the waiter does exitCh <- cmd.Wait(); close(exitCh).  While the select is
\* pending the child's end is one of its cases.
Dev_Exit(l, status) ==
    /\ devProc[l].st = "run"
    /\ ~\E t \in Clients : pc[t] = "dev_select" /\ frame[t].l = l
    /\ devProc' = [devProc EXCEPT ![l].st = "dead"]
    /\ exitCh' = [exitCh EXCEPT ![l] = status]
    /\ UNCHANGED <<sessions, mu, heap, pc, frame, calls, starts, tunProc, ts,
                   env, pick, ext, race>>

-----------------------------------------------------------------------------
(***************************************************************************)
(* The tunnel: pickTunnel, then startTunnel's backend.                     *)
(***************************************************************************)
\* The call goes on to its next step.
Proceeds(t, to) ==
    /\ pc' = [pc EXCEPT ![t] = to]
    /\ UNCHANGED <<devProc, exitCh>>

StartPreview_pickTunnel(t) ==
    /\ pc[t] = "pick"
    /\ LET r == pickTunnel(frame[t].override, env.PREVIEW_TUNNEL, env.path)
       IN  IF r.err # ""
           THEN StartFails(t, r.err)
           ELSE /\ frame' = [frame EXCEPT ![t].tunnel = r.tunnel]
                /\ Proceeds(t, "tunnel")
    /\ UNCHANGED <<sessions, mu, heap, calls, starts, tunProc, ts, env, pick, ext, race>>

\* os.Getenv(name), trimmed, with the bare executable name as the default.
BinaryOf(value, default) ==
    IF TrimSpace(value) = S_empty THEN default ELSE TrimSpace(value)

\* startNgrokTunnel up to cmd.Start.
startNgrokTunnel_Spawn(t) ==
    /\ pc[t] = "tunnel"
    /\ frame[t].tunnel = S_ngrok
    /\ LET l == frame[t].l
       IN  IF ~LookPath(env.path, BinaryOf(env.NGROK_BIN, S_ngrok))
           THEN /\ StartFails(t, "ngrok not found")
                /\ UNCHANGED tunProc
           ELSE \/ \* StdoutPipe, StderrPipe or cmd.Start fails: ngCancel()
                   /\ tunProc' = [tunProc EXCEPT ![l].cancelled = TRUE]
                   /\ StartFails(t, "ngrok spawn failed")
                \/ /\ tunProc' = [tunProc EXCEPT ![l].st = "run"]
                   /\ Proceeds(t, "ngrok_select")
                   /\ frame' = frame
    /\ UNCHANGED <<sessions, mu, heap, calls, starts, ts, env, pick, ext, race>>

\* case url := <-urlCh: a log line of ngrok yielded a URL
startNgrokTunnel_URL(t, url) ==
    /\ pc[t] = "ngrok_select"
    /\ frame' = [frame EXCEPT ![t].url = url]
    /\ Proceeds(t, "insert_lock")
    /\ UNCHANGED <<sessions, mu, heap, calls, starts, tunProc, ts, env, pick, ext, race>>

\* case err := <-errCh: cmd.Wait returned a failure; ngCancel() and the
\* early-exit error
startNgrokTunnel_Err(t) ==
    /\ pc[t] = "ngrok_select"
    /\ tunProc' = [tunProc EXCEPT ![frame[t].l] = Cancel([@ EXCEPT !.st = "dead"])]
    /\ StartFails(t, "ngrok exited early")
    /\ UNCHANGED <<sessions, mu, heap, calls, starts, ts, env, pick, ext, race>>

\* case <-time.After(20 * time.Second): ngCancel(), Kill, the timeout error
startNgrokTunnel_Timeout(t) ==
    /\ pc[t] = "ngrok_select"
    /\ tunProc' = [tunProc EXCEPT ![frame[t].l] = Kill(Cancel(@))]
    /\ StartFails(t, "timed out waiting for ngrok url")
    /\ UNCHANGED <<sessions, mu, heap, calls, starts, ts, env, pick, ext, race>>

\* ngrok ends by itself.  While the select is pending its end is one of
\* the select's cases.
Ngrok_Exit(l) ==
    /\ tunProc[l].st = "run"
    /\ ~\E t \in Clients : pc[t] = "ngrok_select" /\ frame[t].l = l
    /\ tunProc' = [tunProc EXCEPT ![l].st = "dead"]
    /\ UNCHANGED <<sessions, mu, heap, pc, frame, calls, starts, devProc,
                   exitCh, ts, env, pick, ext, race>>

\* startTailscaleFunnel up to the binary lookup.
startTailscaleFunnel_Lookup(t) ==
    /\ pc[t] = "tunnel"
    /\ frame[t].tunnel = S_tailscale
    /\ IF ~LookPath(env.path, BinaryOf(env.TAILSCALE_BIN, S_tailscale))
       THEN StartFails(t, "tailscale not found")
       ELSE /\ Proceeds(t, "ts_serve")
            /\ frame' = frame
    /\ UNCHANGED <<sessions, mu, heap, calls, starts, tunProc, ts, env, pick, ext, race>>

\* `tailscale serve https / http://127.0.0.1:<port>`, run to its end.
startTailscaleFunnel_Serve(t) ==
    /\ pc[t] = "ts_serve"
    /\ \/ /\ ts' = [ts EXCEPT !.serve = TRUE]
          /\ Proceeds(t, "ts_funnel")
          /\ frame' = frame
       \/ /\ StartFails(t, "tailscale serve failed")
          /\ ts' = ts
    /\ UNCHANGED <<sessions, mu, heap, calls, starts, tunProc, env, pick, ext, race>>

\* The funnel step that goes on to the status query when the command failed.
startTailscaleFunnel_FunnelGoesOn(t) ==
    /\ pc[t] = "ts_funnel"
    /\ \/ /\ ts' = [ts EXCEPT !.funnel = TRUE]
          /\ Proceeds(t, "ts_status")
          /\ frame' = frame
       \/ /\ Proceeds(t, "ts_status")
          /\ frame' = frame
          /\ ts' = ts
    /\ UNCHANGED <<sessions, mu, heap, calls, starts, tunProc, env, pick, ext, race>>

\* `tailscale funnel 443 on`, run to its end.
startTailscaleFunnel_Funnel(t) ==
    /\ pc[t] = "ts_funnel"
    /\ \/ /\ ts' = [ts EXCEPT !.funnel = TRUE]
          /\ Proceeds(t, "ts_status")
          /\ frame' = frame
       \/ /\ StartFails(t, "tailscale funnel failed")
          /\ ts' = ts
    /\ UNCHANGED <<sessions, mu, heap, calls, starts, tunProc, env, pick, ext, race>>

\* tailscalePublicURL: `tailscale status --json`, Self.DNSName, the URL; the
\* command, the parse or the name may fail.
tailscalePublicURL(t) ==
    /\ pc[t] = "ts_status"
    /\ \/ \E name \in DNSNames :
             IF name = S_empty
             THEN StartFails(t, "tailscale status failed")
             ELSE /\ frame' = [frame EXCEPT ![t].url = PublicURL(name)]
                  /\ Proceeds(t, "insert_lock")
       \/ StartFails(t, "tailscale status failed")
    /\ UNCHANGED <<sessions, mu, heap, calls, starts, tunProc, ts, env, pick, ext, race>>

-----------------------------------------------------------------------------
(***************************************************************************)
(* The session, its registration and its monitor.                          *)
(***************************************************************************)
\* The PreviewSession StartPreview builds; launch numbers name the process
\* handles, cancel functions and the exit channel, 0 is nil.
NewSession(t) ==
    LET l == frame[t].l
        process == frame[t].tunnel = S_ngrok
    IN  [ChatID |-> frame[t].topic[1], ThreadID |-> frame[t].topic[2],
         RepoPath |-> frame[t].repoPath, Tunnel |-> frame[t].tunnel,
         URL |-> frame[t].url, Port |-> frame[t].port,
         DevCmd |-> l, DevCancel |-> l, DevExitCh |-> l,
         TunnelCmd |-> IF process THEN l ELSE 0,
         TunnelCancel |-> IF process THEN l ELSE 0]

StartPreview_InsertLock(t) == Lock(t, "insert_lock", "insert")

\* svc.sessions[key] = session, under the mutex
StartPreview_Insert(t) ==
    /\ pc[t] = "insert"
    /\ mu = t
    /\ heap' = [heap EXCEPT ![frame[t].l] = NewSession(t)]
    /\ sessions' = [k \in DOMAIN sessions \cup {KeyOf(t)} |->
                        IF k = KeyOf(t) THEN frame[t].l ELSE sessions[k]]
    /\ mu' = NoThread
    /\ pc' = [pc EXCEPT ![t] = "go_monitor"]
    /\ UNCHANGED <<frame, calls, starts, devProc, exitCh, tunProc, ts, env, pick, ext, race>>

\* go svc.monitorSession(session); return session, nil
StartPreview_Go(t) ==
    /\ pc[t] = "go_monitor"
    /\ LET l == frame[t].l
       IN  /\ pc' = [pc EXCEPT ![t] = "done", ![Monitor(l)] = "monitor_wait"]
           /\ frame' = [frame EXCEPT
                  ![t] = [NoFrame EXCEPT !.result = StartResult(t, "", l)],
                  ![Monitor(l)] = [NoFrame EXCEPT !.op = "monitor", !.l = l]]
    /\ UNCHANGED <<sessions, mu, heap, calls, starts, devProc, exitCh, tunProc,
                   ts, env, pick, ext, race>>

\* The monitor that tears down the session it was started for, not the one
\* the registry holds for the topic.
monitorSessionStopsOwn(l) ==
    /\ pc[Monitor(l)] = "monitor_wait"
    /\ exitCh[heap[l].DevExitCh] # "open"
    /\ exitCh' = [exitCh EXCEPT ![heap[l].DevExitCh] = "closed"]
    /\ pc' = [pc EXCEPT ![Monitor(l)] = "stop_tunnel"]
    /\ frame' = [frame EXCEPT ![Monitor(l)].topic =
                                  <<heap[l].ChatID, heap[l].ThreadID>>,
                              ![Monitor(l)].session = l,
                              ![Monitor(l)].ret = "monitor_exit"]
    /\ UNCHANGED <<sessions, mu, heap, calls, starts, devProc, tunProc, ts,
                   env, pick, ext, race>>

\* monitorSession: err, ok := <-session.DevExitCh, then StopPreview of the
\* session's topic, whatever was received: the value or, from the closed
\* channel, nothing.
monitorSession(l) ==
    /\ pc[Monitor(l)] = "monitor_wait"
    /\ exitCh[heap[l].DevExitCh] # "open"
    /\ exitCh' = [exitCh EXCEPT ![heap[l].DevExitCh] = "closed"]
    /\ pc' = [pc EXCEPT ![Monitor(l)] = "stop_lock"]
    /\ frame' = [frame EXCEPT ![Monitor(l)].topic =
                                  <<heap[l].ChatID, heap[l].ThreadID>>,
                              ![Monitor(l)].ret = "monitor_exit"]
    /\ UNCHANGED <<sessions, mu, heap, calls, starts, devProc, tunProc, ts,
                   env, pick, ext, race>>

-----------------------------------------------------------------------------
(***************************************************************************)
(* StopPreview(chatID, threadID), called by a client, by Shutdown and by   *)
(* a monitor; frame[t].ret says where the call returns to.                 *)
(***************************************************************************)
StopPreview(t, topic) ==
    /\ t \in Clients
    /\ pc[t] \in {"idle", "done"}
    /\ calls < MaxCalls
    /\ calls' = calls + 1
    /\ pc' = [pc EXCEPT ![t] = "stop_lock"]
    /\ frame' = [frame EXCEPT ![t] = [NoFrame EXCEPT !.op = "stop",
                                                     !.topic = topic,
                                                     !.ret = "done"]]
    /\ UNCHANGED <<sessions, mu, heap, starts, devProc, exitCh, tunProc,
                   ts, env, pick, ext, race>>

\* return nil
StopReturns(t) ==
    CASE frame[t].ret = "done" ->
            Return(t, [NoResult EXCEPT !.op = "stop"])
      [] frame[t].ret = "monitor_exit" ->
            /\ pc' = [pc EXCEPT ![t] = "finished"]
            /\ frame' = [frame EXCEPT ![t] = NoFrame]
      [] frame[t].ret = "shutdown_loop" ->
            /\ pc' = [pc EXCEPT ![t] = "shutdown_loop"]
            /\ frame' = [frame EXCEPT ![t].session = 0]

StopPreview_Lock(t) == Lock(t, "stop_lock", "stop_delete")

\* The deletion that resets tailscale before it looks at what it found.
StopPreview_DeleteResetsFirst(t) ==
    /\ pc[t] = "stop_delete"
    /\ mu = t
    /\ mu' = NoThread
    /\ LET key == KeyOf(t)
           session == Lookup(key)
       IN  /\ sessions' = [k \in DOMAIN sessions \ {key} |-> sessions[k]]
           /\ IF session = 0
              THEN /\ ts' = [serve |-> FALSE, funnel |-> FALSE,
                                 resets |-> ts.resets + 1]
                   /\ StopReturns(t)
              ELSE /\ frame' = [frame EXCEPT ![t].session = session]
                   /\ pc' = [pc EXCEPT ![t] = "stop_tunnel"]
                   /\ ts' = ts
    /\ UNCHANGED <<heap, calls, starts, devProc, exitCh, tunProc, env, pick, ext, race>>

\* The lookup that leaves the entry in the registry.
StopPreview_DeleteKeepsEntry(t) ==
    /\ pc[t] = "stop_delete"
    /\ mu = t
    /\ mu' = NoThread
    /\ LET key == KeyOf(t)
           session == Lookup(key)
       IN  /\ sessions' = sessions
           /\ IF session = 0
              THEN StopReturns(t)
              ELSE /\ frame' = [frame EXCEPT ![t].session = session]
                   /\ pc' = [pc EXCEPT ![t] = "stop_tunnel"]
    /\ UNCHANGED <<heap, calls, starts, devProc, exitCh, tunProc, ts, env, pick, ext, race>>

\* The lookup whose early return, for a topic without a session, leaves
\* the mutex locked.
StopPreview_DeleteReturnsLocked(t) ==
    /\ pc[t] = "stop_delete"
    /\ mu = t
    /\ LET key == KeyOf(t)
           session == Lookup(key)
       IN  /\ sessions' = [k \in DOMAIN sessions \ {key} |-> sessions[k]]
           /\ IF session = 0
              THEN /\ mu' = mu
                   /\ StopReturns(t)
              ELSE /\ mu' = NoThread
                   /\ frame' = [frame EXCEPT ![t].session = session]
                   /\ pc' = [pc EXCEPT ![t] = "stop_tunnel"]
    /\ UNCHANGED <<heap, calls, starts, devProc, exitCh, tunProc, ts, env, pick, ext, race>>

\* session = svc.sessions[key]; delete(svc.sessions, key), under the mutex;
\* without a session the call returns nil.
StopPreview_Delete(t) ==
    /\ pc[t] = "stop_delete"
    /\ mu = t
    /\ mu' = NoThread
    /\ LET key == KeyOf(t)
           session == Lookup(key)
       IN  /\ sessions' = [k \in DOMAIN sessions \ {key} |-> sessions[k]]
           /\ IF session = 0
              THEN StopReturns(t)
              ELSE /\ frame' = [frame EXCEPT ![t].session = session]
                   /\ pc' = [pc EXCEPT ![t] = "stop_tunnel"]
    /\ UNCHANGED <<heap, calls, starts, devProc, exitCh, tunProc, ts, env, pick, ext, race>>

\* The tunnel's teardown that also clears the handle it has just used.
StopPreview_TunnelClearsHandle(t) ==
    /\ pc[t] = "stop_tunnel"
    /\ LET session == heap[frame[t].session]
           cancelled == IF session.TunnelCancel # 0
                        THEN [tunProc EXCEPT ![session.TunnelCancel] = Cancel(@)]
                        ELSE tunProc
       IN  /\ tunProc' = IF session.TunnelCmd # 0
                         THEN [cancelled EXCEPT ![session.TunnelCmd] = Kill(@)]
                         ELSE cancelled
           /\ heap' = [heap EXCEPT ![frame[t].session].TunnelCmd = 0,
                                   ![frame[t].session].TunnelCancel = 0]
    /\ pc' = [pc EXCEPT ![t] = "stop_dev"]
    /\ UNCHANGED <<sessions, mu, frame, calls, starts, devProc, exitCh,
                   ts, env, pick, ext, race>>

\* session.TunnelCancel() and session.TunnelCmd.Process.Kill(), each if set
StopPreview_Tunnel(t) ==
    /\ pc[t] = "stop_tunnel"
    /\ LET session == heap[frame[t].session]
           cancelled == IF session.TunnelCancel # 0
                        THEN [tunProc EXCEPT ![session.TunnelCancel] = Cancel(@)]
                        ELSE tunProc
       IN  tunProc' = IF session.TunnelCmd # 0
                      THEN [cancelled EXCEPT ![session.TunnelCmd] = Kill(@)]
                      ELSE cancelled
    /\ pc' = [pc EXCEPT ![t] = "stop_dev"]
    /\ UNCHANGED <<sessions, mu, heap, frame, calls, starts, devProc, exitCh,
                   ts, env, pick, ext, race>>

\* The dev server's teardown without the kill.
StopPreview_DevCancelOnly(t) ==
    /\ pc[t] = "stop_dev"
    /\ LET session == heap[frame[t].session]
       IN  /\ devProc' = IF session.DevCancel # 0
                         THEN [devProc EXCEPT ![session.DevCancel] = Cancel(@)]
                         ELSE devProc
           /\ exitCh' = Killed(session.DevCmd)
    /\ pc' = [pc EXCEPT ![t] = "stop_funnel"]
    /\ UNCHANGED <<sessions, mu, heap, frame, calls, starts, tunProc,
                   ts, env, pick, ext, race>>

\* session.DevCancel() and session.DevCmd.Process.Kill(), each if set
StopPreview_Dev(t) ==
    /\ pc[t] = "stop_dev"
    /\ LET session == heap[frame[t].session]
           cancelled == IF session.DevCancel # 0
                        THEN [devProc EXCEPT ![session.DevCancel] = Cancel(@)]
                        ELSE devProc
       IN  /\ devProc' = IF session.DevCmd # 0
                         THEN [cancelled EXCEPT ![session.DevCmd] = Kill(@)]
                         ELSE cancelled
           /\ exitCh' = Killed(session.DevCmd)
    /\ pc' = [pc EXCEPT ![t] = "stop_funnel"]
    /\ UNCHANGED <<sessions, mu, heap, frame, calls, starts, tunProc,
                   ts, env, pick, ext, race>>

\* The last step of the teardown without the test of the tunnel's tag.
StopPreview_FunnelAnyTunnel(t) ==
    /\ pc[t] = "stop_funnel"
    /\ IF LookPath(env.path, BinaryOf(env.TAILSCALE_BIN, S_tailscale))
       THEN /\ \E off \in BOOLEAN : ts' = [ts EXCEPT !.funnel = @ /\ ~off]
            /\ pc' = [pc EXCEPT ![t] = "stop_reset"]
            /\ frame' = frame
       ELSE /\ ts' = ts
            /\ StopReturns(t)
    /\ UNCHANGED <<sessions, mu, heap, calls, starts, devProc, exitCh, tunProc,
                   env, pick, ext, race>>

\* if session.Tunnel == "tailscale" { svc.stopTailscaleFunnel() }; return nil.
\* stopTailscaleFunnel returns at once without the binary; with it, it runs
\* `tailscale funnel 443 off`, which may fail, unheeded.
StopPreview_Funnel(t) ==
    /\ pc[t] = "stop_funnel"
    /\ IF /\ heap[frame[t].session].Tunnel = S_tailscale
          /\ LookPath(env.path, BinaryOf(env.TAILSCALE_BIN, S_tailscale))
       THEN /\ \E off \in BOOLEAN : ts' = [ts EXCEPT !.funnel = @ /\ ~off]
            /\ pc' = [pc EXCEPT ![t] = "stop_reset"]
            /\ frame' = frame
       ELSE /\ ts' = ts
            /\ StopReturns(t)
    /\ UNCHANGED <<sessions, mu, heap, calls, starts, devProc, exitCh, tunProc,
                   env, pick, ext, race>>

\* stopTailscaleFunnel after the funnel command: `tailscale serve reset`,
\* which may fail, unheeded; then StopPreview returns nil.
stopTailscaleFunnel_Reset(t) ==
    /\ pc[t] = "stop_reset"
    /\ \E reset \in BOOLEAN :
          ts' = [ts EXCEPT !.serve = @ /\ ~reset, !.resets = @ + 1]
    /\ StopReturns(t)
    /\ UNCHANGED <<sessions, mu, heap, calls, starts, devProc, exitCh, tunProc,
                   env, pick, ext, race>>

-----------------------------------------------------------------------------
(***************************************************************************)
(* PreviewStatus and Shutdown.                                             *)
(***************************************************************************)
PreviewStatus(t, topic) ==
    /\ pc[t] \in {"idle", "done"}
    /\ calls < MaxCalls
    /\ calls' = calls + 1
    /\ pc' = [pc EXCEPT ![t] = "status_lock"]
    /\ frame' = [frame EXCEPT ![t] = [NoFrame EXCEPT !.op = "status",
                                                     !.topic = topic]]
    /\ UNCHANGED <<sessions, mu, heap, starts, devProc, exitCh, tunProc,
                   ts, env, pick, ext, race>>

PreviewStatus_Lock(t) == Lock(t, "status_lock", "status_read")

\* The lookup that reports whatever the map gave as found.
PreviewStatus_ReadAlwaysFound(t) ==
    /\ pc[t] = "status_read"
    /\ mu = t
    /\ mu' = NoThread
    /\ Return(t, [NoResult EXCEPT !.op = "status",
                                  !.session = Lookup(KeyOf(t)),
                                  !.found = TRUE])
    /\ UNCHANGED <<sessions, heap, calls, starts, devProc, exitCh, tunProc,
                   ts, env, pick, ext, race>>

\* session := svc.sessions[key] under the mutex; (nil, false) for nil
PreviewStatus_Read(t) ==
    /\ pc[t] = "status_read"
    /\ mu = t
    /\ mu' = NoThread
    /\ LET session == Lookup(KeyOf(t))
       IN  Return(t, [NoResult EXCEPT !.op = "status", !.session = session,
                                      !.found = (session # 0)])
    /\ UNCHANGED <<sessions, heap, calls, starts, devProc, exitCh, tunProc,
                   ts, env, pick, ext, race>>

Shutdown(t) ==
    /\ pc[t] \in {"idle", "done"}
    /\ calls < MaxCalls
    /\ calls' = calls + 1
    /\ pc' = [pc EXCEPT ![t] = "shutdown_lock"]
    /\ frame' = [frame EXCEPT ![t] = [NoFrame EXCEPT !.op = "shutdown"]]
    /\ UNCHANGED <<sessions, mu, heap, starts, devProc, exitCh, tunProc,
                   ts, env, pick, ext, race>>

Shutdown_Lock(t) == Lock(t, "shutdown_lock", "shutdown_keys")

\* The sequences that list every element of S once: the orders in which a
\* range over a Go map can visit its keys.
Orders(S) ==
    {q \in [1..Cardinality(S) -> S] : \A k \in S : \E i \in DOMAIN q : q[i] = k}

\* keys = the keys of svc.sessions, under the mutex
Shutdown_Keys(t) ==
    /\ pc[t] = "shutdown_keys"
    /\ mu = t
    /\ mu' = NoThread
    /\ \E keys \in Orders(DOMAIN sessions) :
           frame' = [frame EXCEPT ![t].keys = keys, ![t].i = 1]
    /\ pc' = [pc EXCEPT ![t] = "shutdown_loop"]
    /\ UNCHANGED <<sessions, heap, calls, starts, devProc, exitCh, tunProc,
                   ts, env, pick, ext, race>>

\* One round of for _, key := range keys: the key is split and parsed and
\* StopPreview is called with the result; a key that does not split in two
\* is skipped; after the last key Shutdown returns.
Shutdown_Loop(t) ==
    /\ pc[t] = "shutdown_loop"
    /\ IF frame[t].i > Len(frame[t].keys)
       THEN Return(t, [NoResult EXCEPT !.op = "shutdown"])
       ELSE LET parts == SplitN2(frame[t].keys[frame[t].i])
            IN  IF Len(parts) # 2
                THEN /\ frame' = [frame EXCEPT ![t].i = @ + 1]
                     /\ pc' = pc
                ELSE /\ frame' = [frame EXCEPT
                            ![t].i = @ + 1,
                            ![t].topic = <<ParseInt(parts[1]), ParseInt(parts[2])>>,
                            ![t].ret = "shutdown_loop"]
                     /\ pc' = [pc EXCEPT ![t] = "stop_lock"]
    /\ UNCHANGED <<sessions, mu, heap, calls, starts, devProc, exitCh, tunProc,
                   ts, env, pick, ext, race>>

-----------------------------------------------------------------------------
(***************************************************************************)
(* The supervisor: clients call the four operations in any order and at    *)
(* any time, the children and the goroutines run as they may.              *)
(***************************************************************************)
Next ==
    \/ \E t \in Clients, topic \in Topics, repoPath \in RepoPaths,
          override \in Overrides : StartPreview(t, topic, repoPath, override)
    \/ \E t \in Clients : StartPreview_Lock(t)
    \/ \E t \in Clients : StartPreview_Check(t)
    \/ \E t \in Clients : startDevServer_Spawn(t)
    \/ \E t \in Clients, port \in {0} \cup DevPorts :
          startDevServer_Port(t, port)
    \/ \E t \in Clients : startDevServer_Err(t)
    \/ \E t \in Clients : startDevServer_Timeout(t)
    \/ \E l \in Launches, status \in {"nil", "err"} : Dev_Exit(l, status)
    \/ \E t \in Clients : StartPreview_pickTunnel(t)
    \/ \E t \in Clients : startNgrokTunnel_Spawn(t)
    \/ \E t \in Clients, url \in NgrokURLs : startNgrokTunnel_URL(t, url)
    \/ \E t \in Clients : startNgrokTunnel_Err(t)
    \/ \E t \in Clients : startNgrokTunnel_Timeout(t)
    \/ \E l \in Launches : Ngrok_Exit(l)
    \/ \E t \in Clients : startTailscaleFunnel_Lookup(t)
    \/ \E t \in Clients : startTailscaleFunnel_Serve(t)
    \/ \E t \in Clients : startTailscaleFunnel_Funnel(t)
    \/ \E t \in Clients : tailscalePublicURL(t)
    \/ \E t \in Clients : StartPreview_InsertLock(t)
    \/ \E t \in Clients : StartPreview_Insert(t)
    \/ \E t \in Clients : StartPreview_Go(t)
    \/ \E l \in Launches : monitorSession(l)
    \/ \E t \in Clients, topic \in Topics : StopPreview(t, topic)
    \/ \E t \in Threads : StopPreview_Lock(t)
    \/ \E t \in Threads : StopPreview_Delete(t)
    \/ \E t \in Threads : StopPreview_Tunnel(t)
    \/ \E t \in Threads : StopPreview_Dev(t)
    \/ \E t \in Threads : StopPreview_Funnel(t)
    \/ \E t \in Threads : stopTailscaleFunnel_Reset(t)
    \/ \E t \in Clients, topic \in Topics : PreviewStatus(t, topic)
    \/ \E t \in Clients : PreviewStatus_Lock(t)
    \/ \E t \in Clients : PreviewStatus_Read(t)
    \/ \E t \in Clients : Shutdown(t)
    \/ \E t \in Clients : Shutdown_Lock(t)
    \/ \E t \in Clients : Shutdown_Keys(t)
    \/ \E t \in Clients : Shutdown_Loop(t)

Spec == Init /\ [][Next]_vars

\* What the scheduler owes a session: a goroutine that can run is run in
\* the end.  A critical section ends, a call that has registered its session
\* starts the monitor, and a monitor and a teardown go on when they can.
Progress ==
    \/ \E t \in Clients :
          \/ StartPreview_Check(t) \/ StartPreview_Insert(t)
          \/ StartPreview_Go(t)
          \/ PreviewStatus_Read(t) \/ Shutdown_Keys(t)
    \/ \E l \in Launches : monitorSession(l)
    \/ \E t \in Threads :
          \/ StopPreview_Lock(t) \/ StopPreview_Delete(t)
          \/ StopPreview_Tunnel(t) \/ StopPreview_Dev(t)
          \/ StopPreview_Funnel(t) \/ stopTailscaleFunnel_Reset(t)

FairSpec == Spec /\ WF_vars(Progress)

-----------------------------------------------------------------------------
(***************************************************************************)
(* pickTunnel on its own: every combination of an override, a value of     *)
(* PREVIEW_TUNNEL and a set of installed binaries, and the call.           *)
(***************************************************************************)
S_blank == <<" ">>
S_Ngrok_padded == <<" ", "N", "g", "r", "o", "k", "\t">>
S_TAILSCALE == <<"T", "A", "I", "L", "S", "C", "A", "L", "E">>

PickOverrides == {S_empty, S_blank, S_ngrok, S_Ngrok_padded, S_tailscale,
                  S_TAILSCALE, S_bore}

PickEnvs == {S_empty, S_blank, S_ngrok, S_tailscale, S_TAILSCALE, S_bore}

PickPaths == SUBSET {S_ngrok, S_tailscale}

InitPick ==
    /\ sessions = [k \in {} |-> 0]
    /\ mu = NoThread
    /\ heap = [l \in Launches |-> NoSession]
    /\ pc = [t \in Threads |-> "idle"]
    /\ frame = [t \in Threads |-> NoFrame]
    /\ calls = 0
    /\ starts = 0
    /\ devProc = [l \in Launches |-> NoProc]
    /\ exitCh = [l \in Launches |-> "open"]
    /\ tunProc = [l \in Launches |-> NoProc]
    /\ ts = [serve |-> FALSE, funnel |-> FALSE, resets |-> 0]
    /\ env \in Envs
    /\ \E override \in PickOverrides, value \in PickEnvs, path \in PickPaths :
           pick = [NoPick EXCEPT !.override = override, !.env = value,
                                 !.path = path]
    /\ ext = NoExt
    /\ race = NoRace

pickTunnel_Call ==
    /\ ~pick.done
    /\ pick' = [pick EXCEPT !.done = TRUE,
                            !.out = pickTunnel(pick.override, pick.env, pick.path)]
    /\ UNCHANGED <<sessions, mu, heap, pc, frame, calls, starts, devProc,
                   exitCh, tunProc, ts, env, ext, race>>

NextPick == pickTunnel_Call

SpecPick == InitPick /\ [][NextPick]_vars

-----------------------------------------------------------------------------
(***************************************************************************)
(* Backend selection.                                                      *)
(***************************************************************************)
\* What each input string names, read by eye: nothing, a backend, or
\* something that is not a backend.
Names ==
    (S_empty :> "nothing") @@ (S_blank :> "nothing") @@
    (S_ngrok :> "ngrok") @@ (S_Ngrok_padded :> "ngrok") @@
    (S_tailscale :> "tailscale") @@ (S_TAILSCALE :> "tailscale") @@
    (S_bore :> "unknown")

\* The precedence: override, then environment, then the installed binaries.
Precedence(override, value, path) ==
    IF Names[override] = "unknown" THEN "unknown tunnel"
    ELSE IF Names[override] # "nothing" THEN Names[override]
    ELSE IF Names[value] = "unknown" THEN "unknown PREVIEW_TUNNEL"
    ELSE IF Names[value] # "nothing" THEN Names[value]
    ELSE IF S_ngrok \in path THEN "ngrok"
    ELSE IF S_tailscale \in path THEN "tailscale"
    ELSE "no tunnel binary found"

\* A result of pickTunnel in the same terms.
Outcome(out) ==
    IF out.err # "" THEN out.err
    ELSE IF out.tunnel = S_ngrok THEN "ngrok"
    ELSE IF out.tunnel = S_tailscale THEN "tailscale"
    ELSE "neither"

\* C10: pickTunnel follows the precedence override > PREVIEW_TUNNEL > first
\* installed binary (ngrok, then tailscale) > error, for every combination of
\* the three; a named but unrecognised backend is an error and never falls
\* back to a lower source, and an error carries no backend.
C10_Precedence ==
    pick.done =>
        /\ Outcome(pick.out) = Precedence(pick.override, pick.env, pick.path)
        /\ pick.out.err # "" => pick.out.tunnel = S_empty

\* The override ngrok has been honoured against the default tailscale.
C10_Witness ==
    /\ pick.done
    /\ Names[pick.override] = "ngrok"
    /\ Names[pick.env] = "tailscale"
    /\ pick.path = {S_tailscale}
    /\ pick.out = [tunnel |-> S_ngrok, err |-> ""]

-----------------------------------------------------------------------------
(***************************************************************************)
(* StartPreview on a registered topic.                                     *)
(***************************************************************************)
\* A client's StartPreview reads the registry in this step and finds a
\* session for its topic.
C1_FindsSession(t) ==
    /\ pc[t] = "start_check"
    /\ pc'[t] # "start_check"
    /\ Lookup(KeyOf(t)) # 0

\* The call returns that session and no error, the registry is as it was,
\* the call's launch has no dev server, no tunnel and no monitor, and no
\* process or tailscale setting has changed.
C1_ReturnsIt(t) ==
    LET l == frame[t].l
        r == frame'[t].result
    IN  /\ pc'[t] = "done"
        /\ r.op = "start" /\ r.err = "" /\ r.session = Lookup(KeyOf(t))
        /\ sessions' = sessions
        /\ devProc' = devProc /\ tunProc' = tunProc /\ ts' = ts
        /\ devProc'[l] = NoProc /\ tunProc'[l] = NoProc
        /\ pc'[Monitor(l)] = "idle"

\* A client calls StartPreview in this step, for a topic registered then.
C1_CallsOnRegistered(t) ==
    /\ starts' = starts + 1
    /\ \/ /\ frame'[t].l = starts'
          /\ Lookup(topicKey(frame'[t].topic[1], frame'[t].topic[2])) # 0
       \/ /\ frame'[t].result.l = starts'
          /\ Lookup(topicKey(frame'[t].result.topic[1],
                             frame'[t].result.topic[2])) # 0

-----------------------------------------------------------------------------
(***************************************************************************)
(* The registry.                                                           *)
(***************************************************************************)
\* The topic identity of a session.
TopicOf(l) == <<heap[l].ChatID, heap[l].ThreadID>>

\* C2: in every reachable state the registry holds at most one session per
\* topic identity (chat ID, thread ID): no two entries are sessions of one
\* topic, and what a topic's key leads to is a session of that topic.
C2_OnePerTopic ==
    /\ \A k1, k2 \in DOMAIN sessions :
           TopicOf(sessions[k1]) = TopicOf(sessions[k2]) => k1 = k2
    /\ \A topic \in Topics :
           Lookup(topicKey(topic[1], topic[2])) # 0 =>
               TopicOf(Lookup(topicKey(topic[1], topic[2]))) = topic

\* Both topics have a session at once.
C2_Witness ==
    /\ Cardinality(DOMAIN sessions) = 2
    /\ \A topic \in Topics : Lookup(topicKey(topic[1], topic[2])) # 0

-----------------------------------------------------------------------------
(***************************************************************************)
(* StopPreview.                                                            *)
(***************************************************************************)
\* A StopPreview reads the registry in this step and finds no session.
C3_FindsNone(t) ==
    /\ pc[t] = "stop_delete"
    /\ pc'[t] # "stop_delete"
    /\ Lookup(KeyOf(t)) = 0

\* C3: StopPreview for a topic without a session returns nil and has no
\* effect: the registry is unchanged, no process is cancelled or killed and
\* no tailscale command is issued, however often it is called.
C3_NoEffect ==
    [][\A t \in Threads :
          C3_FindsNone(t) =>
              /\ sessions' = sessions /\ heap' = heap
              /\ devProc' = devProc /\ tunProc' = tunProc /\ exitCh' = exitCh
              /\ ts' = ts
              /\ pc'[t] \in {"done", "finished", "shutdown_loop"}
              /\ frame[t].ret = "done" =>
                     frame'[t].result = [NoResult EXCEPT !.op = "stop"]]_vars

\* Two StopPreview calls have returned where nothing was ever started.
C3_Witness ==
    /\ starts = 0
    /\ calls = 2
    /\ \A t \in Clients : pc[t] = "done" /\ frame[t].result.op = "stop"
    /\ ts.resets = 0

\* The teardown of a StopPreview returns in this step.
C4_Returns(t) ==
    /\ pc[t] \in {"stop_funnel", "stop_reset"}
    /\ pc'[t] \notin {"stop_funnel", "stop_reset"}

\* C4: when StopPreview returns for a topic that had a session, the session
\* is not in the registry, its tunnel context and tunnel process, where it
\* has them, and its dev-server context and process have each been cancelled
\* and killed, and the call returns nil whatever failed on the way.
C4_TornDown ==
    [][\A t \in Threads :
          C4_Returns(t) =>
              LET l == frame[t].session
                  session == heap[l]
              IN  /\ l \notin Registered'
                  /\ devProc'[session.DevCancel].cancelled
                  /\ devProc'[session.DevCmd].killed
                  /\ devProc'[session.DevCmd].st # "run"
                  /\ session.TunnelCancel # 0 =>
                         tunProc'[session.TunnelCancel].cancelled
                  /\ session.TunnelCmd # 0 =>
                         /\ tunProc'[session.TunnelCmd].killed
                         /\ tunProc'[session.TunnelCmd].st # "run"
                  /\ frame[t].ret = "done" =>
                         /\ pc'[t] = "done"
                         /\ frame'[t].result = [NoResult EXCEPT !.op = "stop"]]_vars

\* A client's StopPreview has returned after the teardown of an ngrok
\* session whose monitor has not yet moved.
C4_Witness ==
    \E t \in Clients, l \in Launches :
        /\ pc[t] = "done" /\ frame[t].result.op = "stop"
        /\ heap[l] # NoSession
        /\ heap[l].TunnelCmd = l
        /\ l \notin Registered
        /\ pc[Monitor(l)] = "monitor_wait"
        /\ devProc[l].killed /\ tunProc[l].killed

-----------------------------------------------------------------------------
(***************************************************************************)
(* StartPreview's failures.                                                *)
(***************************************************************************)
\* The launch of a call that has failed: nothing of it is registered, it
\* has no session and no monitor.
Unregistered(l) ==
    /\ l \notin Registered
    /\ heap[l] = NoSession
    /\ pc[Monitor(l)] = "idle"

\* A StartPreview of client t has returned err.
Failed(t, err) ==
    /\ pc[t] = "done"
    /\ frame[t].result.op = "start"
    /\ frame[t].result.err = err
    /\ frame[t].result.session = 0

C7_Timeout ==
    /\ [][\A t \in Clients :
             startDevServer_Timeout(t) =>
                 /\ Failed(t, "timed out waiting for dev server port")'
                 /\ sessions' = sessions]_vars
    /\ [](\A t \in Clients :
             Failed(t, "timed out waiting for dev server port") =>
                 LET l == frame[t].result.l
                 IN  /\ devProc[l].cancelled
                     /\ devProc[l].killed
                     /\ devProc[l].st = "dead"
                     /\ Unregistered(l))

\* The timeout error has been returned.
C7_Witness ==
    \E t \in Clients :
        /\ Failed(t, "timed out waiting for dev server port")
        /\ devProc[frame[t].result.l].killed
        /\ Lookup(topicKey(frame[t].result.topic[1],
                           frame[t].result.topic[2])) = 0

\* The errors of the steps after the dev server's launch.
TunnelErrors ==
    {"unknown tunnel", "unknown PREVIEW_TUNNEL", "no tunnel binary found",
     "ngrok not found", "ngrok spawn failed", "ngrok exited early",
     "timed out waiting for ngrok url", "tailscale not found",
     "tailscale serve failed", "tailscale funnel failed",
     "tailscale status failed"}

\* Where a call is between the dev server's launch and the registration.
TunnelSteps ==
    {"pick", "tunnel", "ngrok_select", "ts_serve", "ts_funnel", "ts_status"}

\* C8: when the dev server was launched and a later step of StartPreview
\* fails, then as the error is returned the dev server's context is
\* cancelled and its process killed, a tunnel process of the call runs no
\* more, and no session is registered.
C8_NoOrphan ==
    /\ [][\A t \in Clients :
             (pc[t] \in TunnelSteps /\ pc'[t] = "done") =>
                 /\ \E err \in TunnelErrors : Failed(t, err)'
                 /\ sessions' = sessions]_vars
    /\ [](\A t \in Clients :
             (pc[t] = "done" /\ frame[t].result.op = "start"
              /\ frame[t].result.err \in TunnelErrors) =>
                 LET l == frame[t].result.l
                 IN  /\ devProc[l].cancelled
                     /\ devProc[l].killed
                     /\ devProc[l].st = "dead"
                     /\ tunProc[l].st # "run"
                     /\ Unregistered(l))

\* ngrok's timeout has been returned, with both processes killed.
C8_Witness ==
    \E t \in Clients :
        /\ Failed(t, "timed out waiting for ngrok url")
        /\ devProc[frame[t].result.l].killed
        /\ tunProc[frame[t].result.l].killed

\* C9: StartPreview for an unregistered topic with an override outside
\* {ngrok, tailscale} yields a configuration error without a dev server or
\* a tunnel having been spawned at any point of the call.
C9_NothingSpawned ==
    /\ \A t \in Clients :
           (frame[t].op = "start" /\ Names[frame[t].override] = "unknown") =>
               /\ devProc[frame[t].l].st = "none"
               /\ tunProc[frame[t].l].st = "none"
    /\ \A t \in Clients :
           Failed(t, "unknown tunnel") =>
               /\ devProc[frame[t].result.l] = NoProc
               /\ tunProc[frame[t].result.l] = NoProc

-----------------------------------------------------------------------------
(***************************************************************************)
(* The monitor.                                                            *)
(***************************************************************************)
\* Session l is registered and its dev server has ended.
C5_Exited(l) ==
    /\ l \in Registered
    /\ devProc[l].st = "dead"

\* Session l is out of the registry and its tunnel process, if it has one,
\* has been ended and runs no more.
C5_Stopped(l) ==
    /\ l \notin Registered
    /\ heap[l].TunnelCmd # 0 => tunProc[heap[l].TunnelCmd].st # "run"

-----------------------------------------------------------------------------
-----------------------------------------------------------------------------
(***************************************************************************)
(* The registry and the failed starts.                                     *)
(***************************************************************************)
\* Client t takes a step of a StartPreview call.
C12_StartStep(t) ==
    /\ pc'[t] # pc[t] \/ frame'[t] # frame[t]
    /\ \/ frame[t].op = "start"
       \/ /\ pc[t] \in {"idle", "done"}
          /\ \/ frame'[t].op = "start"
             \/ pc'[t] = "done" /\ frame'[t].result.op = "start"

\* A StartPreview of client t has returned an error.
C12_Errored(t) ==
    /\ pc[t] = "done"
    /\ frame[t].result.op = "start"
    /\ frame[t].result.err # ""

\* C12: a StartPreview call changes the registry in one step only, the
\* insertion, which it takes after its dev server has yielded a port and its
\* tunnel a URL and after which it returns no error; so a call that returns
\* an error - empty path, missing manifest, spawn failure, early exit,
\* timeout, tunnel selection or tunnel launch failure - has made no change
\* to the registry, has registered no session and has started no monitor.
C12_ErrorsLeaveRegistry ==
    /\ [][\A t \in Clients :
             C12_StartStep(t) =>
                 \/ /\ sessions' = sessions
                    /\ heap' = heap
                    /\ pc[t] # "go_monitor" =>
                           \A l \in Launches : pc'[Monitor(l)] = pc[Monitor(l)]
                 \/ /\ pc[t] = "insert"
                    /\ pc'[t] = "go_monitor"
                    /\ frame[t].port \in DevPorts
                    /\ frame[t].url # S_empty
                    /\ frame[t].tunnel \in {S_ngrok, S_tailscale}
                    /\ devProc[frame[t].l].st # "none"
                    /\ frame[t].tunnel = S_ngrok =>
                           tunProc[frame[t].l].st # "none"]_vars
    /\ [][\A t \in Clients :
             (pc[t] = "go_monitor" /\ pc'[t] # pc[t]) =>
                 /\ pc'[t] = "done"
                 /\ frame'[t].result.err = ""
                 /\ frame'[t].result.session = frame[t].l]_vars
    /\ [](\A t \in Clients :
             C12_Errored(t) =>
                 /\ frame[t].result.session = 0
                 /\ Unregistered(frame[t].result.l))

\* A call has failed at the tunnel launch, after its dev server was up,
\* while another topic's session stays registered.
C12_Witness ==
    \E t \in Clients :
        /\ C12_Errored(t)
        /\ frame[t].result.err \in TunnelErrors
        /\ devProc[frame[t].result.l].st = "dead"
        /\ \E k \in DOMAIN sessions :
               TopicOf(sessions[k]) # frame[t].result.topic


-----------------------------------------------------------------------------
(***************************************************************************)
(* PreviewStatus.                                                          *)
(***************************************************************************)
\* The sessions registered for a topic.
C14_RegisteredFor(topic) == {l \in Registered : TopicOf(l) = topic}

\* Client t takes a step of a PreviewStatus call.
C14_StatusStep(t) ==
    /\ pc'[t] # pc[t] \/ frame'[t] # frame[t]
    /\ \/ frame[t].op = "status"
       \/ pc[t] \in {"idle", "done"} /\ frame'[t].op = "status"

\* C14: the lookup of PreviewStatus returns (session, true) when a session
\* is registered for the topic at that moment, that session, and
\* (nil, false) when none is; and no step of a PreviewStatus call changes
\* the registry, a session, a process, an exit channel or the tailscale
\* configuration.
C14_StatusReads ==
    /\ [][\A t \in Clients :
             (pc[t] = "status_read" /\ pc'[t] # pc[t]) =>
                 LET topic == frame[t].topic
                     res == frame'[t].result
                 IN  /\ pc'[t] = "done"
                     /\ res.op = "status"
                     /\ IF C14_RegisteredFor(topic) # {}
                        THEN /\ res.found = TRUE
                             /\ C14_RegisteredFor(topic) = {res.session}
                        ELSE /\ res.found = FALSE
                             /\ res.session = 0]_vars
    /\ [][\A t \in Clients :
             C14_StatusStep(t) =>
                 UNCHANGED <<sessions, heap, devProc, exitCh, tunProc, ts>>]_vars

\* A PreviewStatus has returned, as found, the session that is registered
\* for its topic.
C14_Witness ==
    \E t \in Clients :
        /\ pc[t] = "done"
        /\ frame[t].result.op = "status"
        /\ frame[t].result.found
        /\ frame[t].result.session \in Registered
        /\ devProc[frame[t].result.session].st = "run"


-----------------------------------------------------------------------------
(***************************************************************************)
(* The registry mutex.                                                     *)
(***************************************************************************)
\* The places of the code between svc.mu.Lock() and svc.mu.Unlock().
C19_CriticalSections ==
    {"start_check", "insert", "stop_delete", "status_read", "shutdown_keys"}

\* C19: the goroutine that holds the registry mutex is at a map read or
\* write, never at a spawn, a select, a channel receive or a tunnel
\* command; and the step it takes there releases the mutex and leaves every
\* process, exit channel and the tailscale configuration as they are.
C19_MutexOnlyAroundMap ==
    /\ [](mu # NoThread => pc[mu] \in C19_CriticalSections)
    /\ [][\A t \in Threads :
             (mu = t /\ pc'[t] # pc[t]) =>
                 /\ mu' = NoThread
                 /\ UNCHANGED <<devProc, tunProc, exitCh, ts>>]_vars
    /\ [][\A t \in Threads :
             (pc'[t] # pc[t] /\ pc[t] \in C19_CriticalSections) => mu = t]_vars

\* One call holds the mutex for its insertion while the other waits in the
\* select of its dev-server launch.
C19_Witness ==
    \E t, u \in Clients :
        /\ mu = t
        /\ pc[t] = "insert"
        /\ pc[u] = "dev_select"
        /\ devProc[frame[u].l].st = "run"


-----------------------------------------------------------------------------
(***************************************************************************)
(* Two StartPreview calls for one topic.                                   *)
(***************************************************************************)
\* Session l was inserted, is no longer the registry's, and nobody has
\* ended or is ending its processes: no StopPreview took it out of the
\* registry, a later insertion replaced it.
C18_Orphan(l) ==
    /\ heap[l] # NoSession
    /\ l \notin Registered
    /\ ~devProc[l].cancelled /\ ~devProc[l].killed
    /\ ~tunProc[l].cancelled /\ ~tunProc[l].killed
    /\ \A t \in Threads : frame[t].session # l

-----------------------------------------------------------------------------
(***************************************************************************)
(* Shutdown at a time when no StartPreview runs: two sessions are          *)
(* registered, one behind ngrok and one behind tailscale, their monitors   *)
(* wait, and StartPreview is called no more.  The state is the one the     *)
(* supervisor is in after two successful starts.                           *)
(***************************************************************************)
NgrokSession ==
    [ChatID |-> -7, ThreadID |-> 12, RepoPath |-> "/ws/app",
     Tunnel |-> S_ngrok, URL |-> S_https \o S_host_a, Port |-> 3000,
     DevCmd |-> 1, DevCancel |-> 1, DevExitCh |-> 1,
     TunnelCmd |-> 1, TunnelCancel |-> 1]

TailscaleSession ==
    [ChatID |-> -71, ThreadID |-> 2, RepoPath |-> "/ws/app",
     Tunnel |-> S_tailscale, URL |-> TailscaleURL, Port |-> 3000,
     DevCmd |-> 2, DevCancel |-> 2, DevExitCh |-> 2,
     TunnelCmd |-> 0, TunnelCancel |-> 0]

Started(l) == IF l = 1 THEN NgrokSession
              ELSE IF l = 2 THEN TailscaleSession ELSE NoSession

InitShutdown ==
    /\ sessions = [k \in {topicKey(-7, 12), topicKey(-71, 2)} |->
                       IF k = topicKey(-7, 12) THEN 1 ELSE 2]
    /\ mu = NoThread
    /\ heap = [l \in Launches |-> Started(l)]
    /\ pc = [t \in Threads |->
                IF t \in Clients THEN "done"
                ELSE IF Started(t[2]) # NoSession THEN "monitor_wait"
                ELSE "idle"]
    /\ frame = [t \in Threads |->
                   IF t \in Clients
                   THEN [NoFrame EXCEPT !.result =
                            [op |-> "start",
                             topic |-> <<Started(t[2]).ChatID,
                                         Started(t[2]).ThreadID>>,
                             l |-> t[2], err |-> "", session |-> t[2],
                             found |-> FALSE]]
                   ELSE IF Started(t[2]) # NoSession
                   THEN [NoFrame EXCEPT !.op = "monitor", !.l = t[2]]
                   ELSE NoFrame]
    /\ calls = 0
    /\ starts = 2
    /\ devProc = [l \in Launches |->
                     IF Started(l) # NoSession
                     THEN [NoProc EXCEPT !.st = "run"] ELSE NoProc]
    /\ exitCh = [l \in Launches |-> "open"]
    /\ tunProc = [l \in Launches |->
                     IF Started(l).TunnelCmd # 0
                     THEN [NoProc EXCEPT !.st = "run"] ELSE NoProc]
    /\ ts = [serve |-> TRUE, funnel |-> TRUE, resets |-> 0]
    /\ env \in {e \in Envs : e.PREVIEW_TUNNEL = S_empty}
    /\ pick = NoPick
    /\ ext = NoExt
    /\ race = NoRace

NextShutdown ==
    \/ \E t \in Clients : Shutdown(t)
    \/ \E t \in Clients : Shutdown_Lock(t)
    \/ \E t \in Clients : Shutdown_Keys(t)
    \/ \E t \in Clients : Shutdown_Loop(t)
    \/ \E t \in Clients, topic \in Topics : StopPreview(t, topic)
    \/ \E t \in Threads : StopPreview_Lock(t)
    \/ \E t \in Threads : StopPreview_Delete(t)
    \/ \E t \in Threads : StopPreview_Tunnel(t)
    \/ \E t \in Threads : StopPreview_Dev(t)
    \/ \E t \in Threads : StopPreview_Funnel(t)
    \/ \E t \in Threads : stopTailscaleFunnel_Reset(t)
    \/ \E l \in Launches : monitorSession(l)
    \/ \E l \in Launches, status \in {"nil", "err"} : Dev_Exit(l, status)
    \/ \E l \in Launches : Ngrok_Exit(l)

SpecShutdown == InitShutdown /\ [][NextShutdown]_vars

\* The state Shutdown starts from is one of the supervisor's.
ShutdownStartReached ==
    /\ sessions = [k \in {topicKey(-7, 12), topicKey(-71, 2)} |->
                       IF k = topicKey(-7, 12) THEN 1 ELSE 2]
    /\ heap = [l \in Launches |-> Started(l)]
    /\ \A l \in {1, 2} : pc[Monitor(l)] = "monitor_wait"
    /\ \A t \in Clients : pc[t] = "done" /\ frame[t].result.session = t[2]
    /\ devProc[1].st = "run" /\ devProc[2].st = "run" /\ tunProc[1].st = "run"
    /\ ts.serve /\ ts.funnel
    /\ mu = NoThread

\* The keys of a snapshot.
C13_Snapshot(t) == {frame[t].keys[i] : i \in 1..Len(frame[t].keys)}

\* The registry key of session l.
C13_KeyOf(l) == topicKey(heap[l].ChatID, heap[l].ThreadID)

\* The processes of session l run no more.
C13_TornDown(l) ==
    /\ devProc[l].st # "run"
    /\ tunProc[l].st # "run"

-----------------------------------------------------------------------------
(***************************************************************************)
(* The readiness extractor: extractPort and the two patterns Configure     *)
(* compiles.  The patterns are raw string literals, so regexp.MustCompile  *)
(* receives their backslashes doubled: \\. is a backslash and then any     *)
(* character, \\d a backslash and then the letter d, \\b a backslash and   *)
(* then the letter b, and \\[::1\\] a backslash and then one character of  *)
(* the class [::1\\], which holds the colon, the digit 1 and the           *)
(* backslash.  A pattern is modelled by the atoms the parser makes of it:  *)
(* an atom accepts any character but the newline, or the characters of a   *)
(* set, letters in either case under (?i).                                 *)
(***************************************************************************)
Backslash == "\\"

Dot == [dot |-> TRUE, fold |-> FALSE, of |-> {}]

Class(chars) == [dot |-> FALSE, fold |-> FALSE, of |-> chars]

\* The atoms of a literal.
Lit(w) == [k \in 1..Len(w) |-> Class({w[k]})]

\* The atoms of a literal of lower-case letters under (?i).
Fold(w) == [k \in 1..Len(w) |-> [dot |-> FALSE, fold |-> TRUE, of |-> {w[k]}]]

Accepts(atom, c) ==
    \/ atom.dot /\ c # "\n"
    \/ ~atom.dot /\ (IF atom.fold THEN ToLower(<<c>>)[1] ELSE c) \in atom.of

\* The atoms accept the characters of s from position i on.
MatchesAt(s, i, atoms) ==
    /\ i >= 1
    /\ i + Len(atoms) - 1 <= Len(s)
    /\ \A k \in 1..Len(atoms) : Accepts(atoms[k], s[i + k - 1])

\* The length of the longest run of characters atom accepts from position i
\* of s, at most most.
Run(s, i, atom, most) ==
    LET ok == {n \in 0..most :
                  /\ i + n - 1 <= Len(s)
                  /\ \A k \in 0..(n - 1) : Accepts(atom, s[i + k])}
    IN  CHOOSE n \in ok : \A m \in ok : m <= n

\* http://(?:localhost|127\\.0\\.0\\.1|0\\.0\\.0\\.0|\\[::1\\]):(\\d+) - the
\* scheme, the four alternatives in their order, and what follows: the
\* colon, and in the group a backslash and one or more letters d.
devURLRe ==
    [scheme |-> Lit(<<"h", "t", "t", "p", ":", "/", "/">>),
     hosts |-> << Lit(<<"l", "o", "c", "a", "l", "h", "o", "s", "t">>),
                  Lit(<<"1", "2", "7">>) \o <<Class({Backslash}), Dot>> \o
                  Lit(<<"0">>) \o <<Class({Backslash}), Dot>> \o
                  Lit(<<"0">>) \o <<Class({Backslash}), Dot>> \o
                  Lit(<<"1">>),
                  Lit(<<"0">>) \o <<Class({Backslash}), Dot>> \o
                  Lit(<<"0">>) \o <<Class({Backslash}), Dot>> \o
                  Lit(<<"0">>) \o <<Class({Backslash}), Dot>> \o
                  Lit(<<"0">>),
                  <<Class({Backslash}), Class({":", "1", Backslash})>> >>,
     colon |-> Lit(<<":">>),
     group |-> <<Class({Backslash}), Class({"d"})>>]

\* The match of devURLRe that starts at position i of s, <<>> if there is
\* none: the first alternative that lets the rest match, and d+ as long as
\* it can be.  The result is FindStringSubmatch's: the match and the group.
devURLRe_At(s, i) ==
    LET re == devURLRe
        fits == {a \in 1..Len(re.hosts) :
                    MatchesAt(s, i, re.scheme \o re.hosts[a] \o re.colon
                                    \o re.group)}
    IN  IF fits = {} THEN <<>>
        ELSE LET a == CHOOSE x \in fits : \A y \in fits : x <= y
                 g == i + Len(re.scheme) + Len(re.hosts[a]) + Len(re.colon)
                 n == Run(s, g + 1, re.group[2], Len(s))
             IN  <<SubSeq(s, i, g + n), SubSeq(s, g, g + n)>>

\* svc.devURLRe.FindStringSubmatch(line): the leftmost match.
devURLRe_FindStringSubmatch(line) ==
    LET at == {i \in 1..Len(line) : devURLRe_At(line, i) # <<>>}
    IN  IF at = {} THEN <<>>
        ELSE devURLRe_At(line, CHOOSE i \in at : \A j \in at : i <= j)

\* (?i)\\b(?:port|listening)\\b[^0-9]*(\\d{2,5}) - a backslash and the
\* letter b, one of the two words, a backslash and the letter b, any run of
\* characters that are not digits, and in the group a backslash and two to
\* five letters d; letters in either case.
portLineRe ==
    [edge |-> <<Class({Backslash})>> \o Fold(<<"b">>),
     words |-> <<Fold(<<"p", "o", "r", "t">>),
                 Fold(<<"l", "i", "s", "t", "e", "n", "i", "n", "g">>)>>,
     group |-> <<Class({Backslash})>> \o Fold(<<"d", "d">>)]

\* The match of portLineRe that starts at position i of s: the first word
\* that lets the rest match, [^0-9]* as long as it can be, then the group
\* as long as it can be.
portLineRe_At(s, i) ==
    LET re == portLineRe
        After(a) == i + Len(re.edge) + Len(re.words[a]) + Len(re.edge)
        Groups(a) == {k \in After(a)..Len(s) :
                         /\ \A m \in After(a)..(k - 1) : ~IsDigit(s[m])
                         /\ MatchesAt(s, k, re.group)}
        fits == {a \in 1..Len(re.words) :
                    /\ MatchesAt(s, i, re.edge \o re.words[a] \o re.edge)
                    /\ Groups(a) # {}}
    IN  IF fits = {} THEN <<>>
        ELSE LET a == CHOOSE x \in fits : \A y \in fits : x <= y
                 g == CHOOSE k \in Groups(a) : \A m \in Groups(a) : m <= k
                 n == Run(s, g + 1, re.group[2], 5)
             IN  <<SubSeq(s, i, g + n), SubSeq(s, g, g + n)>>

\* svc.portLineRe.FindStringSubmatch(line): the leftmost match.
portLineRe_FindStringSubmatch(line) ==
    LET at == {i \in 1..Len(line) : portLineRe_At(line, i) # <<>>}
    IN  IF at = {} THEN <<>>
        ELSE portLineRe_At(line, CHOOSE i \in at : \A j \in at : i <= j)

\* strconv.Atoi: the number and whether there is an error; a string that is
\* not an optional sign and decimal digits is a syntax error.
Atoi(s) ==
    LET signed == s # <<>> /\ s[1] \in {"-", "+"}
        body == IF signed THEN Tail(s) ELSE s
    IN  [n |-> ParseInt(s),
         err |-> body = <<>> \/ \E i \in 1..Len(body) : ~IsDigit(body[i])]

\* The extractor that answers 3000 when nothing matches.
extractPortDefault(line) ==
    LET url == devURLRe_FindStringSubmatch(line)
        port == portLineRe_FindStringSubmatch(line)
    IN  IF Len(url) = 2 /\ ~Atoi(url[2]).err THEN Atoi(url[2]).n
        ELSE IF Len(port) = 2 /\ ~Atoi(port[2]).err THEN Atoi(port[2]).n
        ELSE 3000

\* extractPort: the group of the URL pattern if it matches and Atoi takes
\* it, else the group of the port pattern if it matches and Atoi takes it,
\* else 0.
extractPort(line) ==
    LET url == devURLRe_FindStringSubmatch(line)
        port == portLineRe_FindStringSubmatch(line)
    IN  IF Len(url) = 2 /\ ~Atoi(url[2]).err THEN Atoi(url[2]).n
        ELSE IF Len(port) = 2 /\ ~Atoi(port[2]).err THEN Atoi(port[2]).n
        ELSE 0

(***************************************************************************)
(* The lines extractPort is applied to: lines with a loopback URL and a    *)
(* port, lines with the word port or listening and a number, lines with    *)
(* neither, and lines the patterns as compiled do match.                   *)
(***************************************************************************)
\* prefix http:// host : port suffix
URLLine(prefix, host, port, suffix) ==
    prefix \o <<"h", "t", "t", "p", ":", "/", "/">> \o host \o <<":">> \o port
           \o suffix

URLPrefixes ==
    { <<>>,
      <<"L", "o", "c", "a", "l", ":", " ">>,
      <<" ", " ", ">", " ">> }

LoopbackHosts ==
    { <<"l", "o", "c", "a", "l", "h", "o", "s", "t">>,
      <<"1", "2", "7", ".", "0", ".", "0", ".", "1">>,
      <<"0", ".", "0", ".", "0", ".", "0">>,
      <<"[", ":", ":", "1", "]">> }

URLPorts ==
    { <<"4", "3", "2", "1">>,
      <<"3", "0", "0", "0">>,
      <<"8", "0">> }

URLSuffixes ==
    { <<>>,
      <<"/">> }

URLLines ==
    {URLLine(prefix, host, port, suffix) :
        prefix \in URLPrefixes, host \in LoopbackHosts,
        port \in URLPorts, suffix \in URLSuffixes}

\* "Server " word between number
WordLine(word, between, number) ==
    <<"S", "e", "r", "v", "e", "r", " ">> \o word \o between \o number

PortWords ==
    { <<"p", "o", "r", "t">>,
      <<"l", "i", "s", "t", "e", "n", "i", "n", "g">>,
      <<"P", "O", "R", "T">>,
      <<"L", "i", "s", "t", "e", "n", "i", "n", "g">> }

Betweens ==
    { <<" ">>,
      <<" ", "o", "n", " ">>,
      <<":", " ">> }

Numbers ==
    { <<"8", "0", "8", "0">>,
      <<"8", "0">>,
      <<"5", "1", "7", "3", "0">> }

WordLines ==
    {WordLine(word, between, number) :
        word \in PortWords, between \in Betweens, number \in Numbers}

\* "Local: http://localhost:4321/"
LocalLine == 
    <<"L", "o", "c", "a", "l", ":", " ", "h", "t", "t", "p", ":", "/", "/",
      "l", "o", "c", "a", "l", "h", "o", "s", "t", ":", "4", "3", "2", "1",
      "/">>

\* "Server listening on 8080"
ListeningLine == 
    <<"S", "e", "r", "v", "e", "r", " ", "l", "i", "s", "t", "e", "n", "i",
      "n", "g", " ", "o", "n", " ", "8", "0", "8", "0">>

\* Lines without a loopback URL with a port and without the word port or
\* listening before a number of two to five digits.
NeitherLines ==
    { <<>>,
      <<"r", "e", "a", "d", "y", " ", "i", "n", " ", "2", "5", "0", " ", "m",
        "s">>,
      <<"c", "o", "m", "p", "i", "l", "e", "d", " ", "s", "u", "c", "c", "e",
        "s", "s", "f", "u", "l", "l", "y">>,
      <<"$", " ", "v", "i", "t", "e", " ", "-", "-", "h", "o", "s", "t">>,
      <<"h", "t", "t", "p", ":", "/", "/", "e", "x", "a", "m", "p", "l", "e",
        ".", "c", "o", "m", ":", "8", "0", "8", "0", "/">>,
      <<"h", "t", "t", "p", "s", ":", "/", "/", "l", "o", "c", "a", "l", "h",
        "o", "s", "t", "/">>,
      <<"p", "o", "r", "t">>,
      <<"l", "i", "s", "t", "e", "n", "i", "n", "g", " ", "o", "n", " ", "p",
        "o", "r", "t", " ", "5">>,
      <<"y", "a", "r", "n", " ", "r", "u", "n", " ", "v", "1", ".", "2", "2",
        ".", "1", "9">>,
      <<"e", "r", "r", "o", "r", " ", "4", "0", "4">> }

\* Lines written for the patterns as they are compiled.
CompiledLines ==
    { <<"h", "t", "t", "p", ":", "/", "/", "l", "o", "c", "a", "l", "h", "o",
        "s", "t", ":", "\\", "d">>,
      <<"h", "t", "t", "p", ":", "/", "/", "l", "o", "c", "a", "l", "h", "o",
        "s", "t", ":", "\\", "d", "d", "d", "/">>,
      <<"h", "t", "t", "p", ":", "/", "/", "1", "2", "7", "\\", "a", "0", "\\",
        "b", "0", "\\", "c", "1", ":", "\\", "d", "d">>,
      <<"h", "t", "t", "p", ":", "/", "/", "0", "\\", ".", "0", "\\", ".", "0",
        "\\", ".", "0", ":", "\\", "d">>,
      <<"h", "t", "t", "p", ":", "/", "/", "\\", ":", ":", "\\", "d">>,
      <<"h", "t", "t", "p", ":", "/", "/", "\\", "1", ":", "\\", "d", "d">>,
      <<"\\", "b", "p", "o", "r", "t", "\\", "b", " ", "\\", "d", "d">>,
      <<"\\", "B", "L", "I", "S", "T", "E", "N", "I", "N", "G", "\\", "B", " ",
        "o", "n", " ", "\\", "D", "D", "D">>,
      <<"\\", "b", "l", "i", "s", "t", "e", "n", "i", "n", "g", "\\", "b", "\\",
        "d", "d", "d", "d", "d", "d", "d", "d">>,
      <<"\\", "b", "p", "o", "r", "t", "\\", "b", ":", " ", "\\", "d">> }

Lines == URLLines \cup WordLines \cup NeitherLines \cup CompiledLines

InitExtract ==
    /\ sessions = [k \in {} |-> 0]
    /\ mu = NoThread
    /\ heap = [l \in Launches |-> NoSession]
    /\ pc = [t \in Threads |-> "idle"]
    /\ frame = [t \in Threads |-> NoFrame]
    /\ calls = 0
    /\ starts = 0
    /\ devProc = [l \in Launches |-> NoProc]
    /\ exitCh = [l \in Launches |-> "open"]
    /\ tunProc = [l \in Launches |-> NoProc]
    /\ ts = [serve |-> FALSE, funnel |-> FALSE, resets |-> 0]
    /\ env \in Envs
    /\ pick = NoPick
    /\ \E line \in Lines : ext = [NoExt EXCEPT !.line = line]
    /\ race = NoRace

extractPort_Call ==
    /\ ~ext.done
    /\ ext' = [ext EXCEPT !.done = TRUE, !.out = extractPort(ext.line)]
    /\ UNCHANGED <<sessions, mu, heap, pc, frame, calls, starts, devProc,
                   exitCh, tunProc, ts, env, pick, race>>

NextExtract == extractPort_Call

SpecExtract == InitExtract /\ [][NextExtract]_vars


-----------------------------------------------------------------------------
(***************************************************************************)
(* What the extractor yields.                                              *)
(***************************************************************************)
\* C15: extractPort applied to "Local: http://localhost:4321/" yields 4321,
\* and applied to any line that holds http://, one of localhost, 127.0.0.1,
\* 0.0.0.0 and [::1], a colon and digits it yields the number the digits
\* write.
C15_URLYieldsPort ==
    ext.done =>
        /\ ext.line = LocalLine => ext.out = 4321
        /\ \A prefix \in URLPrefixes, host \in LoopbackHosts,
              port \in URLPorts, suffix \in URLSuffixes :
               ext.line = URLLine(prefix, host, port, suffix) =>
                   ext.out = ParseInt(port)

\* C16: extractPort applied to "Server listening on 8080" yields 8080, and
\* applied to any line that holds the word port or listening, in either
\* case, and after it a number of two to five digits it yields that number.
C16_WordYieldsPort ==
    ext.done =>
        /\ ext.line = ListeningLine => ext.out = 8080
        /\ \A word \in PortWords, between \in Betweens, number \in Numbers :
               ext.line = WordLine(word, between, number) =>
                   ext.out = ParseInt(number)

\* C17: extractPort applied to a line that neither pattern matches yields
\* 0; the lines without a loopback URL and without a port word are such
\* lines; and applying it changes nothing but its own result: the line, the
\* registry, the sessions, the processes and the environment stay as they
\* are.
C17_NoMatchYieldsNone ==
    /\ [](ext.done =>
             /\ ext.line \in NeitherLines =>
                    /\ devURLRe_FindStringSubmatch(ext.line) = <<>>
                    /\ portLineRe_FindStringSubmatch(ext.line) = <<>>
             /\ (/\ devURLRe_FindStringSubmatch(ext.line) = <<>>
                 /\ portLineRe_FindStringSubmatch(ext.line) = <<>>) =>
                    ext.out = 0)
    /\ [][ext' # ext =>
             /\ ext'.line = ext.line
             /\ UNCHANGED <<sessions, mu, heap, pc, frame, calls, starts,
                            devProc, exitCh, tunProc, ts, env, pick,
                            race>>]_vars

\* extractPort has been applied to a line that has digits in it and that
\* neither pattern matches, and has yielded 0.
C17_Witness ==
    /\ ext.done
    /\ ext.line \in NeitherLines
    /\ \E i \in 1..Len(ext.line) : IsDigit(ext.line[i])
    /\ ext.out = 0


-----------------------------------------------------------------------------
(***************************************************************************)
(* One startDevServer in detail, from cmd.Start on: the child, the two     *)
(* scanOutput goroutines and the goroutine that closes lines, the waiter   *)
(* (exitCh <- cmd.Wait(); close(exitCh)), the consumer of lines, the       *)
(* forwarder from exitCh to errCh, and the caller's select over portCh,    *)
(* errCh and the timer.  A line is the port it announces to an extractor   *)
(* that reads it as Configure's patterns are meant to, 0 for none.         *)
(*                                                                         *)
(* A select that finds several cases ready takes any of them; one that     *)
(* finds none parks the goroutine, and the first send on one of its        *)
(* channels is handed to it and decides the case.                          *)
(***************************************************************************)
LaunchLines ==
    UNION {[1..n -> {0} \cup DevPorts] : n \in 0..MaxLines}

InitLaunch ==
    /\ sessions = [k \in {} |-> 0]
    /\ mu = NoThread
    /\ heap = [l \in Launches |-> NoSession]
    /\ pc = [t \in Threads |-> "idle"]
    /\ frame = [t \in Threads |-> NoFrame]
    /\ calls = 0
    /\ starts = 0
    /\ devProc = [l \in Launches |-> NoProc]
    /\ exitCh = [l \in Launches |-> "open"]
    /\ tunProc = [l \in Launches |-> NoProc]
    /\ ts = [serve |-> FALSE, funnel |-> FALSE, resets |-> 0]
    /\ env \in {e \in Envs : e.PREVIEW_TUNNEL = S_empty}
    /\ pick = NoPick
    /\ ext = NoExt
    /\ \E toWrite \in LaunchLines :
           race = [NoRace EXCEPT !.kind = "dev", !.child = "run",
                                 !.toWrite = toWrite, !.sel = "select"]

\* Only race changes in a step of the launch.
LaunchStep ==
    UNCHANGED <<sessions, mu, heap, pc, frame, calls, starts, devProc,
                exitCh, tunProc, ts, env, pick, ext>>

\* The child writes its next line, to stdout or to stderr; a pipe that is
\* full makes it wait.
Child_Write(pipe) ==
    /\ race.child = "run"
    /\ race.toWrite # <<>>
    /\ Len(race[pipe]) < PipeCap
    /\ race' = [race EXCEPT !.toWrite = Tail(@),
                            ![pipe] = Append(@, Head(race.toWrite))]
    /\ LaunchStep

\* The child ends by itself, with status 0 ("nil") or not ("err").
Child_Exit(status) ==
    /\ race.child = "run"
    /\ race' = [race EXCEPT !.child = "exited", !.status = status]
    /\ LaunchStep

\* scanOutput with a plain send, which waits while lines is full.
scanOutputBlocking(pipe) ==
    /\ race.scan[pipe] = "run"
    /\ \/ /\ race[pipe] # <<>>
          /\ Len(race.lines) < LinesCap
          /\ race' = [race EXCEPT
                ![pipe] = Tail(@),
                !.lines = Append(@, Head(race[pipe]))]
       \/ /\ race[pipe] = <<>>
          /\ race.child = "exited"
          /\ race' = [race EXCEPT !.scan[pipe] = "done"]
       \/ /\ race[pipe] # <<>>
          /\ race.waiter # "wait"
          /\ race' = [race EXCEPT ![pipe] = <<>>, !.scan[pipe] = "done"]
    /\ LaunchStep

\* scanOutput: one round of for scanner.Scan(): the line goes to lines if
\* there is room and is dropped if there is none; at end of file wg.Done().
\* cmd.Wait closes the pipes when it returns, so once the waiter is past it
\* a scanner may also end with lines unread.
scanOutput(pipe) ==
    /\ race.scan[pipe] = "run"
    /\ \/ /\ race[pipe] # <<>>
          /\ race' = [race EXCEPT
                ![pipe] = Tail(@),
                !.lines = IF Len(@) < LinesCap
                          THEN Append(@, Head(race[pipe])) ELSE @]
       \/ /\ race[pipe] = <<>>
          /\ race.child = "exited"
          /\ race' = [race EXCEPT !.scan[pipe] = "done"]
       \/ /\ race[pipe] # <<>>
          /\ race.waiter # "wait"
          /\ race' = [race EXCEPT ![pipe] = <<>>, !.scan[pipe] = "done"]
    /\ LaunchStep

\* The closer that waits for one of the two scanners only.
closeLinesAfterOne ==
    /\ \E pipe \in {"stdout", "stderr"} : race.scan[pipe] = "done"
    /\ ~race.linesClosed
    /\ race' = [race EXCEPT !.linesClosed = TRUE]
    /\ LaunchStep

\* wg.Wait(); close(lines)
closeLines ==
    /\ race.scan = [stdout |-> "done", stderr |-> "done"]
    /\ ~race.linesClosed
    /\ race' = [race EXCEPT !.linesClosed = TRUE]
    /\ LaunchStep

\* A send of event on a channel of the select: handed to the caller if it is
\* parked in the select, put in the channel's buffer if not.
Deliver(r, event, channel, value) ==
    IF r.sel = "parked"
    THEN [r EXCEPT !.sel = "chosen", !.chosen = event, !.received = value,
                   !.delivered = Append(@, event)]
    ELSE [r EXCEPT ![channel] = value, !.delivered = Append(@, event)]

\* The consumer whose send on portCh waits for the caller to receive.
consumeLineBlockingSend ==
    /\ race.kind = "dev"
    /\ race.consumer = "run"
    /\ IF race.lines # <<>>
       THEN LET port == Head(race.lines)
                taken == [race EXCEPT !.lines = Tail(@)]
            IN  /\ port # 0 => race.sel = "parked"
                /\ race' = IF port # 0
                           THEN Deliver([taken EXCEPT !.consumer = "done"],
                                        "port", "portCh", port)
                           ELSE taken
       ELSE /\ race.linesClosed
            /\ race' = [race EXCEPT !.consumer = "done"]
    /\ LaunchStep

\* The consumer: for line := range lines; the first line with a port is
\* sent to portCh, without blocking, and the goroutine returns.
consumeLine ==
    /\ race.kind = "dev"
    /\ race.consumer = "run"
    /\ IF race.lines # <<>>
       THEN LET port == Head(race.lines)
                taken == [race EXCEPT !.lines = Tail(@)]
            IN  race' = IF port # 0
                        THEN Deliver([taken EXCEPT !.consumer = "done"],
                                     "port", "portCh", port)
                        ELSE taken
       ELSE /\ race.linesClosed
            /\ race' = [race EXCEPT !.consumer = "done"]
    /\ LaunchStep

\* The waiter: exitCh <- cmd.Wait()
waitChild ==
    /\ race.kind = "dev"
    /\ race.waiter = "wait"
    /\ race.child = "exited"
    /\ race' = [race EXCEPT !.waiter = "close", !.exitCh = race.status]
    /\ LaunchStep

\* The waiter: close(exitCh)
closeExitCh ==
    /\ race.waiter = "close"
    /\ race' = [race EXCEPT !.waiter = "done", !.exitClosed = TRUE]
    /\ LaunchStep

\* The forwarder that sends whatever it received, nil included.
forwardExitAnyStatus ==
    /\ race.forwarder = "run"
    /\ race.exitCh # "empty" \/ race.exitClosed
    /\ LET taken == [race EXCEPT !.exitCh = "empty", !.forwarder = "done"]
       IN  race' = IF race.exitCh # "empty"
                   THEN Deliver(taken, "err", "errCh", "err")
                   ELSE taken
    /\ LaunchStep

\* The forwarder: if err := <-exitCh; err != nil, err is sent to errCh,
\* without blocking.  The receive takes the value cmd.Wait returned, or nil
\* from the closed channel if the value has been received elsewhere.
forwardExit ==
    /\ race.forwarder = "run"
    /\ race.exitCh # "empty" \/ race.exitClosed
    /\ LET taken == [race EXCEPT !.exitCh = "empty", !.forwarder = "done"]
       IN  race' = IF race.exitCh = "err"
                   THEN Deliver(taken, "err", "errCh", "err")
                   ELSE taken
    /\ LaunchStep

\* monitorSession of the session StartPreview registers once the launch
\* has returned a port: err, ok := <-session.DevExitCh, the channel the
\* waiter sends on and the forwarder receives from; the error is logged if
\* ok && err != nil.
monitorSession_Receive ==
    /\ race.kind = "dev"
    /\ race.sel = "returned"
    /\ race.chosen = "port"
    /\ race.monitor = "none"
    /\ race.exitCh # "empty" \/ race.exitClosed
    /\ race' = IF race.exitCh # "empty"
               THEN [race EXCEPT !.exitCh = "empty", !.monitor = "done",
                                 !.got = [err |-> race.exitCh, ok |-> TRUE],
                                 !.logged = (race.exitCh = "err")]
               ELSE [race EXCEPT !.monitor = "done",
                                 !.got = [err |-> "nil", ok |-> FALSE]]
    /\ LaunchStep

\* The caller reaches the select: it takes one of the cases that are ready,
\* and parks, the 20-second timer running, if none is.
startDevServer_Select ==
    /\ race.kind = "dev"
    /\ race.sel = "select"
    /\ LET ready == {c \in {"port", "err"} :
                        \/ c = "port" /\ race.portCh # 0
                        \/ c = "err" /\ race.errCh # "empty"}
       IN  IF ready = {}
           THEN race' = [race EXCEPT !.sel = "parked", !.timer = "armed"]
           ELSE \E c \in ready :
                    race' = IF c = "port"
                            THEN [race EXCEPT !.sel = "chosen", !.chosen = c,
                                              !.received = race.portCh,
                                              !.portCh = 0,
                                              !.timer = "armed"]
                            ELSE [race EXCEPT !.sel = "chosen", !.chosen = c,
                                              !.received = race.errCh,
                                              !.errCh = "empty",
                                              !.timer = "armed"]
    /\ LaunchStep

\* The timer of time.After fires.
Timer_Fire ==
    /\ race.timer = "armed"
    /\ race' = [Deliver(race, "deadline", "timer", "fired")
                    EXCEPT !.timer = "fired"]
    /\ LaunchStep

\* The body of the case taken: the port is returned; or devCancel() and the
\* early-exit error; or devCancel(), cmd.Process.Kill() and the timeout
\* error.  Cancelling ends a child that still runs.
startDevServer_Return ==
    /\ race.kind = "dev"
    /\ race.sel = "chosen"
    /\ LET ended == [race EXCEPT
                        !.sel = "returned",
                        !.cancelled = TRUE,
                        !.child = "exited",
                        !.status = IF race.child = "run" THEN "err" ELSE @]
       IN  race' =
             CASE race.chosen = "port" ->
                    [race EXCEPT !.sel = "returned",
                                 !.result = [port |-> race.received,
                                             err |-> ""]]
               [] race.chosen = "err" ->
                    [ended EXCEPT !.result =
                        [port |-> 0, err |-> "dev server exited early"]]
               [] race.chosen = "deadline" ->
                    [ended EXCEPT !.killed = TRUE, !.result =
                        [port |-> 0,
                         err |-> "timed out waiting for dev server port"]]
    /\ LaunchStep

NextLaunch ==
    \/ \E pipe \in {"stdout", "stderr"} : Child_Write(pipe)
    \/ \E status \in {"nil", "err"} : Child_Exit(status)
    \/ \E pipe \in {"stdout", "stderr"} : scanOutput(pipe)
    \/ closeLines
    \/ consumeLine
    \/ waitChild
    \/ closeExitCh
    \/ forwardExit
    \/ startDevServer_Select
    \/ Timer_Fire
    \/ startDevServer_Return
    \/ monitorSession_Receive

SpecLaunch == InitLaunch /\ [][NextLaunch]_vars

-----------------------------------------------------------------------------
(***************************************************************************)
(* C28.  A session is written once, by the literal of StartPreview.        *)
(***************************************************************************)

\* The session of launch l as the literal of StartPreview builds it from
\* the call's arguments and the two launches' results.
C28_Built(l) ==
    /\ heap[l] # NoSession
    /\ heap[l].DevCmd = l /\ heap[l].DevCancel = l /\ heap[l].DevExitCh = l
    /\ heap[l].Port \in DevPorts
    /\ heap[l].RepoPath \in RepoPaths
    /\ TopicOf(l) \in Topics

\* C28: once a session has been built and inserted, no operation writes any
\* of its fields again: identifiers, repository path, tunnel tag, URL, port
\* and the handles stay what they were at construction, through the status
\* reads, the teardown (which works on the pointer it read under the mutex)
\* and the shutdown; and a session is built only by the insertion step of
\* the call that launched it.
C28_FieldsNeverWritten ==
    /\ [][\A l \in Launches :
            heap[l] # NoSession => heap'[l] = heap[l]]_vars
    /\ [][\A l \in Launches :
            (heap[l] = NoSession /\ heap'[l] # NoSession)
                => \E t \in Clients : /\ pc[t] = "insert"
                                      /\ frame[t].l = l
                                      /\ heap'[l] = NewSession(t)]_vars
    /\ [](\A l \in Launches : heap[l] # NoSession => C28_Built(l))

\* A session that has been inserted, read by a status call or torn down
\* (both processes ended, the entry deleted), with its fields as built.
C28_Witness ==
    \E l \in Launches :
        /\ C28_Built(l)
        /\ heap[l].TunnelCmd = l
        /\ l \notin Registered
        /\ devProc[l].killed
        /\ tunProc[l].killed


-----------------------------------------------------------------------------
(***************************************************************************)
(* C29.  The tailscale backend: three commands in sequence, no process.    *)
(***************************************************************************)

\* The steps of startTailscaleFunnel after the binary lookup.
C29_Steps == {"ts_serve", "ts_funnel", "ts_status"}

\* Client t leaves step `from` either to step `to` or with the error `err`,
\* and in the latter case the tailscale daemon is left as it was.
C29_Step(t, from, to, err) ==
    pc[t] = from /\ pc'[t] # from =>
        \/ pc'[t] = to /\ frame'[t].op = "start"
        \/ Failed(t, err)' /\ ts' = ts

\* C29: the tailscale backend runs `serve`, `funnel on` and the status query
\* strictly one after the other and returns the error of the first step
\* that fails without running a later one; it never returns a process
\* handle or a cancel function, so every session whose tunnel is tailscale
\* has neither, and no tunnel process exists for its launch.
C29_SequenceWithoutProcess ==
    /\ [][\A t \in Clients :
            /\ C29_Step(t, "ts_serve", "ts_funnel", "tailscale serve failed")
            /\ C29_Step(t, "ts_funnel", "ts_status", "tailscale funnel failed")
            /\ C29_Step(t, "ts_status", "insert_lock", "tailscale status failed")
            /\ (pc[t] = "ts_serve" /\ pc'[t] = "ts_funnel") => ts'.serve
            /\ (pc[t] = "ts_funnel" /\ pc'[t] = "ts_status") => ts'.funnel
            /\ (pc[t] = "ts_status" /\ pc'[t] = "insert_lock")
                   => frame'[t].url = TailscaleURL /\ ts' = ts
            /\ (pc[t] # "ts_funnel" /\ pc'[t] = "ts_funnel") => pc[t] = "ts_serve"
            /\ (pc[t] # "ts_status" /\ pc'[t] = "ts_status") => pc[t] = "ts_funnel"
            /\ (pc[t] \in C29_Steps) => tunProc'[frame[t].l] = tunProc[frame[t].l]]_vars
    /\ [][(~ts.funnel /\ ts'.funnel) =>
             \E t \in Clients : pc[t] = "ts_funnel" /\ pc'[t] = "ts_status"]_vars
    /\ [](\A t \in Clients :
             pc[t] \in C29_Steps => tunProc[frame[t].l] = NoProc)
    /\ [](\A l \in Launches :
             (heap[l] # NoSession /\ heap[l].Tunnel = S_tailscale) =>
                 /\ heap[l].TunnelCmd = 0
                 /\ heap[l].TunnelCancel = 0
                 /\ heap[l].URL = TailscaleURL
                 /\ tunProc[l] = NoProc)

\* A registered tailscale session, its three commands done, without a
\* tunnel process or cancel function.
C29_Witness ==
    \E l \in Registered :
        /\ heap[l].Tunnel = S_tailscale
        /\ heap[l].TunnelCmd = 0
        /\ heap[l].TunnelCancel = 0
        /\ ts.serve /\ ts.funnel
        /\ devProc[l].st = "run"


-----------------------------------------------------------------------------
(***************************************************************************)
(* C27.  The order of StopPreview's teardown.                              *)
(***************************************************************************)

\* Where a teardown is once it has found a session.
C27_Teardown == {"stop_tunnel", "stop_dev", "stop_funnel", "stop_reset"}

\* Thread t takes the step of its teardown that starts at `from`.
C27_Leaves(t, from) == pc[t] = from /\ pc'[t] # from

\* The step returns to the teardown's caller.
C27_Returned(t) == pc'[t] \in {"done", "finished", "shutdown_loop"}

\* C27: the teardown of a session runs in a fixed order: first the registry
\* entry is deleted (under the mutex); then the tunnel's context is
\* cancelled and its process killed, each only if present; then the dev
\* server's context is cancelled and its process killed; and last, only
\* for a session whose tunnel is tailscale, `funnel 443 off` and then `serve
\* reset` are run, whose failures are ignored: the call returns nil.
C27_TeardownOrder ==
    /\ [][\A t \in Threads :
            LET l == frame[t].session
                session == heap[l]
            IN  /\ (C27_Leaves(t, "stop_delete") /\ Lookup(KeyOf(t)) # 0) =>
                       /\ pc'[t] = "stop_tunnel"
                       /\ KeyOf(t) \notin DOMAIN sessions'
                       /\ frame'[t].session = Lookup(KeyOf(t))
                       /\ devProc' = devProc /\ tunProc' = tunProc /\ ts' = ts
                /\ C27_Leaves(t, "stop_tunnel") =>
                       /\ pc'[t] = "stop_dev"
                       /\ session.TunnelCancel # 0 =>
                              tunProc'[session.TunnelCancel].cancelled
                       /\ session.TunnelCmd # 0 =>
                              tunProc'[session.TunnelCmd].killed
                       /\ session.TunnelCmd = 0 => tunProc' = tunProc
                       /\ devProc' = devProc /\ ts' = ts /\ sessions' = sessions
                /\ C27_Leaves(t, "stop_dev") =>
                       /\ pc'[t] = "stop_funnel"
                       /\ devProc'[session.DevCancel].cancelled
                       /\ devProc'[session.DevCmd].killed
                       /\ tunProc' = tunProc /\ ts' = ts /\ sessions' = sessions
                /\ C27_Leaves(t, "stop_funnel") =>
                       /\ devProc' = devProc /\ tunProc' = tunProc
                       /\ sessions' = sessions
                       /\ \/ /\ pc'[t] = "stop_reset"
                             /\ session.Tunnel = S_tailscale
                             /\ ts'.serve = ts.serve /\ ts'.resets = ts.resets
                             /\ ts'.funnel => ts.funnel
                          \/ /\ C27_Returned(t)
                             /\ ts' = ts
                /\ C27_Leaves(t, "stop_reset") =>
                       /\ C27_Returned(t)
                       /\ devProc' = devProc /\ tunProc' = tunProc
                       /\ sessions' = sessions
                       /\ ts'.funnel = ts.funnel /\ ts'.resets = ts.resets + 1
                       /\ ts'.serve => ts.serve
                /\ (C27_Leaves(t, "stop_funnel") \/ C27_Leaves(t, "stop_reset"))
                   /\ C27_Returned(t) /\ frame[t].ret = "done" =>
                       frame'[t].result = [NoResult EXCEPT !.op = "stop"]
                /\ (pc[t] # pc'[t] /\ pc'[t] \in C27_Teardown) =>
                       \/ pc[t] = "stop_delete" /\ pc'[t] = "stop_tunnel"
                       \/ pc[t] = "stop_tunnel" /\ pc'[t] = "stop_dev"
                       \/ pc[t] = "stop_dev" /\ pc'[t] = "stop_funnel"
                       \/ pc[t] = "stop_funnel" /\ pc'[t] = "stop_reset"]_vars
    /\ [][ts'.resets # ts.resets \/ (ts.funnel /\ ~ts'.funnel)
            \/ (ts.serve /\ ~ts'.serve) =>
             \E t \in Threads :
                 /\ pc[t] \in {"stop_funnel", "stop_reset"}
                 /\ pc'[t] # pc[t]
                 /\ heap[frame[t].session].Tunnel = S_tailscale]_vars
    /\ [](\A t \in Threads :
             pc[t] \in C27_Teardown => frame[t].session \notin Registered)

\* The teardown of a tailscale session has run to its end: entry deleted,
\* dev server cancelled and killed, exposure switched off and routing reset.
C27_Witness ==
    \E t \in Clients, l \in Launches :
        /\ pc[t] = "done" /\ frame[t].result.op = "stop"
        /\ heap[l].Tunnel = S_tailscale
        /\ l \notin Registered
        /\ devProc[l].cancelled /\ devProc[l].killed
        /\ ts.resets = 1 /\ ~ts.funnel /\ ~ts.serve


-----------------------------------------------------------------------------
(***************************************************************************)
(* C26.  The end of a registered session's ngrok process.                  *)
(***************************************************************************)

\* The ngrok process of the registered session l has ended by itself while
\* its dev server runs.
C26_TunnelGone(l) ==
    /\ l \in Registered
    /\ heap[l].TunnelCmd = l
    /\ tunProc[l].st = "dead"
    /\ ~tunProc[l].cancelled /\ ~tunProc[l].killed
    /\ devProc[l].st = "run"

-----------------------------------------------------------------------------
(***************************************************************************)
(* The supervisor with one session running: the state after a successful   *)
(* StartPreview(-7, 12, "/ws/app", "") through ngrok, from which MaxCalls  *)
(* further calls are made.                                                 *)
(***************************************************************************)
InitRestart ==
    /\ sessions = [k \in {topicKey(-7, 12)} |-> 1]
    /\ mu = NoThread
    /\ heap = [l \in Launches |-> IF l = 1 THEN NgrokSession ELSE NoSession]
    /\ pc = [t \in Threads |->
                IF t = <<"client", 1>> THEN "done"
                ELSE IF t = Monitor(1) THEN "monitor_wait"
                ELSE "idle"]
    /\ frame = [t \in Threads |->
                   IF t = <<"client", 1>>
                   THEN [NoFrame EXCEPT !.result =
                            [op |-> "start", topic |-> <<-7, 12>>,
                             l |-> 1, err |-> "", session |-> 1,
                             found |-> FALSE]]
                   ELSE IF t = Monitor(1)
                   THEN [NoFrame EXCEPT !.op = "monitor", !.l = 1]
                   ELSE NoFrame]
    /\ calls = 0
    /\ starts = 1
    /\ devProc = [l \in Launches |->
                     IF l = 1 THEN [NoProc EXCEPT !.st = "run"] ELSE NoProc]
    /\ exitCh = [l \in Launches |-> "open"]
    /\ tunProc = [l \in Launches |->
                     IF l = 1 THEN [NoProc EXCEPT !.st = "run"] ELSE NoProc]
    /\ ts = [serve |-> FALSE, funnel |-> FALSE, resets |-> 0]
    /\ env \in {e \in Envs :
                   pickTunnel(S_empty, e.PREVIEW_TUNNEL, e.path).tunnel = S_ngrok}
    /\ pick = NoPick
    /\ ext = NoExt
    /\ race = NoRace

SpecRestart == InitRestart /\ [][Next]_vars

\* The state the restart begins in is one of the supervisor's.
RestartStartReached ==
    /\ sessions = [k \in {topicKey(-7, 12)} |-> 1]
    /\ heap[1] = NgrokSession
    /\ pc[<<"client", 1>>] = "done"
    /\ pc[Monitor(1)] = "monitor_wait"
    /\ devProc[1].st = "run" /\ tunProc[1].st = "run"
    /\ exitCh[1] = "open"

-----------------------------------------------------------------------------
(***************************************************************************)
(* C25.  Whose session a monitor tears down.                               *)
(***************************************************************************)

-----------------------------------------------------------------------------
(***************************************************************************)
(* C24.  What the monitor receives on the session's exit channel.          *)
(***************************************************************************)

-----------------------------------------------------------------------------
(***************************************************************************)
(* One startNgrokTunnel in detail, from cmd.Start on: ngrok, the two       *)
(* scanOutput goroutines and the closer of lines (those of the dev         *)
(* server's launch), the consumer that applies extractNgrokURL, the        *)
(* goroutine that waits for ngrok and sends a failure to errCh, and the    *)
(* caller's select over urlCh, errCh and the timer.  A line of ngrok's log *)
(* is what json.Unmarshal makes of it: whether it is a JSON object, and    *)
(* the values of its url and msg members.                                  *)
(***************************************************************************)
NgrokLaunchLines ==
    UNION {[1..n -> NgrokLogLines] : n \in 0..MaxLines}

InitNgrok ==
    /\ sessions = [k \in {} |-> 0]
    /\ mu = NoThread
    /\ heap = [l \in Launches |-> NoSession]
    /\ pc = [t \in Threads |-> "idle"]
    /\ frame = [t \in Threads |-> NoFrame]
    /\ calls = 0
    /\ starts = 0
    /\ devProc = [l \in Launches |-> NoProc]
    /\ exitCh = [l \in Launches |-> "open"]
    /\ tunProc = [l \in Launches |-> NoProc]
    /\ ts = [serve |-> FALSE, funnel |-> FALSE, resets |-> 0]
    /\ env \in {e \in Envs : e.PREVIEW_TUNNEL = S_empty}
    /\ pick = NoPick
    /\ ext = NoExt
    /\ \E toWrite \in NgrokLaunchLines :
           race = [NoRace EXCEPT !.kind = "ngrok", !.child = "run",
                                 !.toWrite = toWrite, !.sel = "select",
                                 !.forwarder = "none"]

\* The consumer: for line := range lines; the first line extractNgrokURL
\* gets a URL from is sent to urlCh, without blocking, and the goroutine
\* returns.
consumeNgrokLine ==
    /\ race.kind = "ngrok"
    /\ race.consumer = "run"
    /\ IF race.lines # <<>>
       THEN LET url == extractNgrokURL(Head(race.lines))
                taken == [race EXCEPT !.lines = Tail(@)]
            IN  race' = IF url # S_empty
                        THEN Deliver([taken EXCEPT !.consumer = "done"],
                                     "url", "urlCh", url)
                        ELSE taken
       ELSE /\ race.linesClosed
            /\ race' = [race EXCEPT !.consumer = "done"]
    /\ LaunchStep

\* The waiter: err := cmd.Wait(); a failure is sent to errCh, without
\* blocking.
waitNgrok ==
    /\ race.kind = "ngrok"
    /\ race.waiter = "wait"
    /\ race.child = "exited"
    /\ LET waited == [race EXCEPT !.waiter = "done"]
       IN  race' = IF race.status = "err"
                   THEN Deliver(waited, "err", "errCh", "err")
                   ELSE waited
    /\ LaunchStep

\* The caller reaches the select: it takes one of the cases that are ready,
\* and parks, the 20-second timer running, if none is.
startNgrokTunnel_Select ==
    /\ race.kind = "ngrok"
    /\ race.sel = "select"
    /\ LET ready == {c \in {"url", "err"} :
                        \/ c = "url" /\ race.urlCh # S_empty
                        \/ c = "err" /\ race.errCh # "empty"}
       IN  IF ready = {}
           THEN race' = [race EXCEPT !.sel = "parked", !.timer = "armed"]
           ELSE \E c \in ready :
                    race' = IF c = "url"
                            THEN [race EXCEPT !.sel = "chosen", !.chosen = c,
                                              !.received = race.urlCh,
                                              !.urlCh = S_empty,
                                              !.timer = "armed"]
                            ELSE [race EXCEPT !.sel = "chosen", !.chosen = c,
                                              !.received = race.errCh,
                                              !.errCh = "empty",
                                              !.timer = "armed"]
    /\ LaunchStep

\* The body of the case taken: the URL is returned with the command and its
\* cancel function; or ngCancel() and the early-exit error; or ngCancel(),
\* cmd.Process.Kill() and the timeout error.  Cancelling ends an ngrok that
\* still runs.
startNgrokTunnel_Return ==
    /\ race.kind = "ngrok"
    /\ race.sel = "chosen"
    /\ LET ended == [race EXCEPT
                        !.sel = "returned",
                        !.cancelled = TRUE,
                        !.child = "exited",
                        !.status = IF race.child = "run" THEN "err" ELSE @]
       IN  race' =
             CASE race.chosen = "url" ->
                    [race EXCEPT !.sel = "returned",
                                 !.tunnel = [url |-> race.received,
                                             cmd |-> TRUE, cancel |-> TRUE,
                                             err |-> ""]]
               [] race.chosen = "err" ->
                    [ended EXCEPT !.tunnel =
                        [url |-> S_empty, cmd |-> FALSE, cancel |-> FALSE,
                         err |-> "ngrok exited early"]]
               [] race.chosen = "deadline" ->
                    [ended EXCEPT !.killed = TRUE, !.tunnel =
                        [url |-> S_empty, cmd |-> FALSE, cancel |-> FALSE,
                         err |-> "timed out waiting for ngrok url"]]
    /\ LaunchStep

NextNgrok ==
    \/ \E pipe \in {"stdout", "stderr"} : Child_Write(pipe)
    \/ \E status \in {"nil", "err"} : Child_Exit(status)
    \/ \E pipe \in {"stdout", "stderr"} : scanOutput(pipe)
    \/ closeLines
    \/ consumeNgrokLine
    \/ waitNgrok
    \/ startNgrokTunnel_Select
    \/ Timer_Fire
    \/ startNgrokTunnel_Return

SpecNgrok == InitNgrok /\ [][NextNgrok]_vars


-----------------------------------------------------------------------------
(***************************************************************************)
(* C30.  The race of startNgrokTunnel.                                     *)
(***************************************************************************)

\* A line that counts as readiness: a JSON object whose url member is a
\* string that starts with https://.
C30_Counts(line) ==
    /\ line.json
    /\ line.url.t = "string"
    /\ Len(line.url.s) >= 8
    /\ \A i \in 1..8 : line.url.s[i] = S_https[i]

\* The consumer takes a line off the merged channel in this step.
C30_Consumes ==
    /\ race.consumer = "run"
    /\ race.lines # <<>>
    /\ race'.lines = Tail(race.lines)

\* The consumer yields a URL exactly for a line that counts, once.
C30_Readiness ==
    [][C30_Consumes =>
          LET line == Head(race.lines)
          IN  IF C30_Counts(line)
              THEN /\ race'.delivered = Append(race.delivered, "url")
                   /\ race'.consumer = "done"
                   /\ \/ race'.urlCh = line.url.s
                      \/ race'.received = line.url.s /\ race'.chosen = "url"
              ELSE /\ race'.delivered = race.delivered
                   /\ race'.urlCh = race.urlCh
                   /\ race'.consumer = "run"]_vars

\* What each case of the select returns and does to the process.
C30_Outcomes ==
    race.sel = "returned" =>
        CASE race.chosen = "url" ->
                /\ race.tunnel = [url |-> race.received, cmd |-> TRUE,
                                  cancel |-> TRUE, err |-> ""]
                /\ race.received \in {S_https \o S_host_a, S_https \o S_host_b}
                /\ ~race.cancelled /\ ~race.killed
          [] race.chosen = "err" ->
                /\ race.tunnel = [url |-> S_empty, cmd |-> FALSE,
                                  cancel |-> FALSE, err |-> "ngrok exited early"]
                /\ race.status = "err"
                /\ race.cancelled /\ ~race.killed
          [] race.chosen = "deadline" ->
                /\ race.tunnel = [url |-> S_empty, cmd |-> FALSE, cancel |-> FALSE,
                                  err |-> "timed out waiting for ngrok url"]
                /\ race.cancelled /\ race.killed
          [] OTHER -> FALSE

\* The handle and the cancel function go with the URL and with nothing else.
C30_HandleOnSuccess ==
    /\ race.tunnel.cmd <=> race.tunnel.cancel
    /\ race.tunnel.cmd <=> (race.sel = "returned" /\ race.tunnel.err = "")
    /\ race.tunnel.cmd <=> race.tunnel.url # S_empty

\* The case taken is that of the event that came first: the URL if it was
\* extracted before a failing exit, the early-exit error if the failing
\* exit came before a URL, the timeout if the deadline came before both.
C30_FirstComeFirst ==
    race.chosen # "none" =>
        /\ race.delivered # <<>>
        /\ race.chosen = race.delivered[1]

C30_ApartFromOrder ==
    /\ C30_Readiness
    /\ [](C30_Outcomes /\ C30_HandleOnSuccess)


-----------------------------------------------------------------------------
(***************************************************************************)
(* Both launches, startDevServer and startNgrokTunnel, with their helper   *)
(* goroutines scheduled fairly: a goroutine that can take a step is not    *)
(* held back for ever.                                                     *)
(***************************************************************************)
InitLaunches == InitLaunch \/ InitNgrok

NextLaunches ==
    \/ \E pipe \in {"stdout", "stderr"} : Child_Write(pipe)
    \/ \E status \in {"nil", "err"} : Child_Exit(status)
    \/ \E pipe \in {"stdout", "stderr"} : scanOutput(pipe)
    \/ closeLines
    \/ consumeLine
    \/ waitChild
    \/ closeExitCh
    \/ forwardExit
    \/ startDevServer_Select
    \/ Timer_Fire
    \/ startDevServer_Return
    \/ monitorSession_Receive
    \/ consumeNgrokLine
    \/ waitNgrok
    \/ startNgrokTunnel_Select
    \/ startNgrokTunnel_Return

\* A step of a helper goroutine of the launch.
Helpers ==
    \/ \E pipe \in {"stdout", "stderr"} : scanOutput(pipe)
    \/ closeLines
    \/ consumeLine \/ consumeNgrokLine
    \/ waitChild \/ closeExitCh \/ waitNgrok
    \/ forwardExit

SpecLaunches == InitLaunches /\ [][NextLaunches]_vars /\ WF_vars(Helpers)

-----------------------------------------------------------------------------
(***************************************************************************)
(* C21.  No helper goroutine of a launch stays behind.                     *)
(***************************************************************************)

\* Every helper goroutine of the launch has returned: both scanners, the
\* closer of lines, the consumer, the waiter and (dev server) the forwarder.
C21_HelpersDone ==
    /\ race.scan = [stdout |-> "done", stderr |-> "done"]
    /\ race.linesClosed
    /\ race.consumer = "done"
    /\ race.waiter = "done"
    /\ race.forwarder = IF race.kind = "dev" THEN "done" ELSE "none"

\* C21: no goroutine of a launch leaks: whichever case the select of
\* startDevServer or startNgrokTunnel takes, and even if it has not taken
\* one yet, once the child has exited (and with it its two output streams
\* have reached their end) every helper goroutine of the launch returns;
\* none stays blocked on a channel for ever, and once returned they stay so.
C21_NoLeak ==
    /\ (race.child = "exited") ~> C21_HelpersDone
    /\ [](C21_HelpersDone => []C21_HelpersDone)

\* A launch that ran into the deadline, its child cancelled and killed, with
\* every helper goroutine returned.
C21_Witness ==
    /\ C21_HelpersDone
    /\ race.sel = "returned"
    /\ race.chosen = "deadline"
    /\ race.killed
    /\ race.toWrite # <<>>


-----------------------------------------------------------------------------
(***************************************************************************)
(* C23.  The closing of the merged line channel.                           *)
(***************************************************************************)

\* Both scanOutput goroutines have returned.
C23_ReadersDone == race.scan = [stdout |-> "done", stderr |-> "done"]

\* The consumer has sent a port or a URL.
C23_Matched == \E i \in 1..Len(race.delivered) : race.delivered[i] \in {"port", "url"}

\* C23: the merged line channel is closed once, and only after both stream
\* readers have returned; a closed channel stays closed and no reader sends
\* on it; and the consumer's loop ends, without a send, when the channel
\* is closed and drained and no line has matched.
C23_ClosedOnceAfterReaders ==
    /\ [][(~race.linesClosed /\ race'.linesClosed) =>
             /\ C23_ReadersDone
             /\ race'.lines = race.lines]_vars
    /\ [][race.linesClosed =>
             /\ race'.linesClosed
             /\ Len(race'.lines) <= Len(race.lines)
             /\ race'.scan = race.scan]_vars
    /\ [](race.linesClosed => C23_ReadersDone)
    /\ [][(race.consumer = "run" /\ race'.consumer = "done") =>
             \/ /\ race.lines # <<>>
                /\ race'.delivered # race.delivered
             \/ /\ race.lines = <<>> /\ race.linesClosed
                /\ race'.delivered = race.delivered]_vars
    /\ race.linesClosed ~> (race.consumer = "done")

\* The channel has been closed after both readers, and the consumer's loop
\* has ended on the closed channel without any line having matched.
C23_Witness ==
    /\ race.linesClosed
    /\ C23_ReadersDone
    /\ race.consumer = "done"
    /\ ~C23_Matched
    /\ race.toWrite = <<>>
    /\ race.sel = "returned" /\ race.chosen = "err"


-----------------------------------------------------------------------------
(***************************************************************************)
(* The path of the output in the dev server's launch, with a child that    *)
(* writes more lines than the merged channel holds: one line that          *)
(* announces the port and then LinesCap + 1 lines that do not, or          *)
(* LinesCap + 2 lines without a port.  The steps are those of the running  *)
(* child, of the two scanners and of the consumer, as long as the child    *)
(* runs; the caller, which acts on this path only by ending the child, is  *)
(* left in front of its select.                                            *)
(***************************************************************************)
Quiet(n) == [i \in 1..n |-> 0]

FloodLines ==
    {<<port>> \o Quiet(LinesCap + 1) : port \in DevPorts}
        \cup {Quiet(LinesCap + 2)}

InitFlood ==
    /\ sessions = [k \in {} |-> 0]
    /\ mu = NoThread
    /\ heap = [l \in Launches |-> NoSession]
    /\ pc = [t \in Threads |-> "idle"]
    /\ frame = [t \in Threads |-> NoFrame]
    /\ calls = 0
    /\ starts = 0
    /\ devProc = [l \in Launches |-> NoProc]
    /\ exitCh = [l \in Launches |-> "open"]
    /\ tunProc = [l \in Launches |-> NoProc]
    /\ ts = [serve |-> FALSE, funnel |-> FALSE, resets |-> 0]
    /\ env \in {e \in Envs : e.PREVIEW_TUNNEL = S_empty}
    /\ pick = NoPick
    /\ ext = NoExt
    /\ \E toWrite \in FloodLines :
           race = [NoRace EXCEPT !.kind = "dev", !.child = "run",
                                 !.toWrite = toWrite, !.sel = "select"]

NextFlood ==
    \/ \E pipe \in {"stdout", "stderr"} : Child_Write(pipe)
    \/ \E pipe \in {"stdout", "stderr"} : scanOutput(pipe)
    \/ consumeLine

SpecFlood == InitFlood /\ [][NextFlood]_vars

-----------------------------------------------------------------------------
(***************************************************************************)
(* C22.  scanOutput does not wait for the consumer.                        *)
(***************************************************************************)

\* The scanner of pipe reads a line in this step.
C22_Reads(pipe) ==
    /\ race.scan[pipe] = "run"
    /\ race[pipe] # <<>>
    /\ race'[pipe] = Tail(race[pipe])
    /\ race'.scan = race.scan

\* C22: scanOutput never blocks on its send to the merged line channel: a
\* scanner with a line to read can always take its step, whatever the
\* consumer does; the line is appended if the 64-slot channel has room and
\* dropped if it is full, and the scanner goes on with its stream; so a
\* child that has output left can always write or have its pipe drained.
C22_NeverBlocks ==
    /\ [](\A pipe \in {"stdout", "stderr"} :
             (race.scan[pipe] = "run" /\ race[pipe] # <<>>)
                 => ENABLED scanOutput(pipe))
    /\ [][\A pipe \in {"stdout", "stderr"} :
             C22_Reads(pipe) =>
                 /\ race'.consumer = race.consumer
                 /\ race'.lines = IF Len(race.lines) < LinesCap
                                  THEN Append(race.lines, Head(race[pipe]))
                                  ELSE race.lines]_vars
    /\ [](Len(race.lines) <= LinesCap)
    /\ [](\A pipe \in {"stdout", "stderr"} :
             (race.child = "run" /\ race.toWrite # <<>>)
                 => (ENABLED Child_Write(pipe) \/ ENABLED scanOutput(pipe)))

\* The consumer has returned after the port's line, the channel is full,
\* and the child, still running, has written all of its LinesCap + 2 lines
\* and both pipes have been read to the end: a line was dropped.
C22_Witness ==
    /\ race.consumer = "done"
    /\ Len(race.lines) = LinesCap
    /\ race.toWrite = <<>>
    /\ race.stdout = <<>> /\ race.stderr = <<>>
    /\ race.child = "run"
    /\ race.scan = [stdout |-> "run", stderr |-> "run"]


-----------------------------------------------------------------------------
(***************************************************************************)
(* C31.  One teardown per session.                                         *)
(***************************************************************************)

\* The threads that are in the teardown of launch l's session.
C31_TearingDown(l) ==
    {t \in Threads : pc[t] \in C27_Teardown /\ frame[t].session = l}

\* Thread t takes its lookup-and-delete step.
C31_Looks(t) == pc[t] = "stop_delete" /\ pc'[t] # "stop_delete"

\* C31: the teardown body runs at most once per session: when a client's
\* StopPreview, the session's monitor and Shutdown race for a registered
\* session, the one whose lookup finds it takes it out of the registry in
\* the same critical section and tears it down; a session taken out is
\* never found again, no two threads are ever in the teardown of the same
\* session, the tailscale commands of the one tailscale session are run
\* once at most, and a lookup that finds the topic absent changes nothing.
C31_TeardownOnce ==
    /\ [][\A t \in Threads :
            C31_Looks(t) =>
                LET l == Lookup(KeyOf(t))
                IN  IF l # 0
                    THEN /\ l \notin Registered'
                         /\ pc'[t] = "stop_tunnel"
                         /\ frame'[t].session = l
                         /\ C31_TearingDown(l) = {}
                    ELSE /\ pc'[t] \notin C27_Teardown
                         /\ sessions' = sessions
                         /\ devProc' = devProc /\ tunProc' = tunProc
                         /\ ts' = ts]_vars
    /\ [][\A l \in Launches : l \notin Registered => l \notin Registered']_vars
    /\ [](\A l \in Launches :
            /\ Cardinality(C31_TearingDown(l)) <= 1
            /\ C31_TearingDown(l) # {} => l \notin Registered)
    /\ [](ts.resets <= 1)

\* Shutdown, a client's StopPreview and the tailscale session's monitor
\* have all run to their end, the registry is empty, and the tailscale
\* commands of the teardown have been run once.
C31_Witness ==
    /\ pc[Monitor(2)] = "finished"
    /\ \E t, u \in Clients :
          /\ pc[t] = "done" /\ frame[t].result.op = "shutdown"
          /\ pc[u] = "done" /\ frame[u].result.op = "stop"
    /\ DOMAIN sessions = {}
    /\ ts.resets = 1
    /\ devProc[2].killed


----------------------------------------------------------------------------
\* C32 - the sessions of the registry

\* The session literal StartPreview builds is the only value the registry
\* ever holds: its Port is what the consumer of startDevServer let through
\* (`port != 0`), its URL what extractNgrokURL or tailscalePublicURL
\* returned, its Tunnel what pickTunnel returned, its dev-server handles
\* those of startDevServer, and its TunnelCmd the handle startNgrokTunnel
\* returns (startTailscaleFunnel returns nil).
C32_Session(l) ==
    /\ heap[l].Port > 0
    /\ heap[l].URL # S_empty
    /\ HasPrefix(heap[l].URL, S_https)
    /\ heap[l].Tunnel \in {S_ngrok, S_tailscale}
    /\ heap[l].DevCmd # 0
    /\ heap[l].DevCancel # 0
    /\ heap[l].DevExitCh # 0
    /\ (heap[l].TunnelCmd # 0) <=> (heap[l].Tunnel = S_ngrok)

\* C32: every session in the registry has a positive port, a non-empty
\* public URL that starts with "https://", the tunnel tag "ngrok" or
\* "tailscale", a dev-server process handle, cancel function and exit
\* channel that are not nil, and a tunnel process handle that is not nil
\* exactly when the tag is "ngrok".
C32_WellFormed == \A l \in Registered : C32_Session(l)

\* Two sessions are registered, one behind ngrok and one behind the funnel.
C32_Witness ==
    /\ \E l \in Registered : heap[l].Tunnel = S_ngrok /\ heap[l].TunnelCmd # 0
    /\ \E l \in Registered :
          heap[l].Tunnel = S_tailscale /\ heap[l].URL = TailscaleURL


-----------------------------------------------------------------------------
(***************************************************************************)
(* C34.  The line that announces the port, written after LinesCap lines    *)
(* that announce none, by a child that keeps running.  The steps are those *)
(* of the child, of the two scanners and of the consumer; the caller       *)
(* stands in front of its select, the race undecided.                      *)
(***************************************************************************)
LateLines == {Quiet(LinesCap) \o <<port>> : port \in DevPorts}

InitLate ==
    /\ sessions = [k \in {} |-> 0]
    /\ mu = NoThread
    /\ heap = [l \in Launches |-> NoSession]
    /\ pc = [t \in Threads |-> "idle"]
    /\ frame = [t \in Threads |-> NoFrame]
    /\ calls = 0
    /\ starts = 0
    /\ devProc = [l \in Launches |-> NoProc]
    /\ exitCh = [l \in Launches |-> "open"]
    /\ tunProc = [l \in Launches |-> NoProc]
    /\ ts = [serve |-> FALSE, funnel |-> FALSE, resets |-> 0]
    /\ env \in {e \in Envs : e.PREVIEW_TUNNEL = S_empty}
    /\ pick = NoPick
    /\ ext = NoExt
    /\ \E toWrite \in LateLines :
           race = [NoRace EXCEPT !.kind = "dev", !.child = "run",
                                 !.toWrite = toWrite, !.sel = "select"]

SpecLate == InitLate /\ [][NextFlood]_vars

\* The scanner of pipe reads a line that announces a port in this step,
\* with the child running and the caller's select undecided.
C34_ReadsReadiness(pipe) ==
    /\ race.child = "run"
    /\ race.sel = "select"
    /\ race.scan[pipe] = "run"
    /\ race[pipe] # <<>>
    /\ Head(race[pipe]) # 0
    /\ race'[pipe] = Tail(race[pipe])
    /\ race'.scan = race.scan

\* The consumer receives a line that announces a port in this step.
C34_ConsumesReadiness ==
    /\ race.consumer = "run"
    /\ race.lines # <<>>
    /\ Head(race.lines) # 0
    /\ race'.lines = Tail(race.lines)

-----------------------------------------------------------------------------
(***************************************************************************)
(* C35.  The dev server that ends with status 0 before a port was seen.    *)
(***************************************************************************)

\* The child has ended by itself and cmd.Wait returns nil for it.
C35_ExitedNil == race.child = "exited" /\ race.status = "nil"

\* The timeout error of startDevServer.
C35_TimeoutError == "timed out waiting for dev server port"

\* C35: when the dev server ends with a nil error before a line with a
\* port was scanned, the launch does not return on that: the exit puts
\* nothing on errCh and leaves the caller where it is, the early-exit error
\* is never the result, and unless a port still arrives the result is the
\* timeout error, returned only once the 20-second timer has fired.
C35_NilExitWaitsForDeadline ==
    /\ [](C35_ExitedNil =>
             /\ race.errCh = "empty"
             /\ \A i \in 1..Len(race.delivered) : race.delivered[i] # "err"
             /\ race.chosen # "err"
             /\ race.result.err # "dev server exited early")
    /\ [][(C35_ExitedNil' /\ race.forwarder = "run"
                          /\ race'.forwarder = "done")
             => /\ race'.sel = race.sel
                /\ race'.chosen = race.chosen
                /\ race'.delivered = race.delivered
                /\ race'.result = race.result]_vars
    /\ []((C35_ExitedNil /\ race.sel = "returned" /\ race.chosen # "port")
             => /\ race.chosen = "deadline"
                /\ race.timer = "fired"
                /\ race.result = [port |-> 0, err |-> C35_TimeoutError])
    /\ [](race.result.err = C35_TimeoutError => race.timer = "fired")

\* The child has ended with status 0 without a line with a port, the
\* forwarder has received the nil and returned, and the launch has returned
\* the timeout error after the timer fired.
C35_Witness ==
    /\ C35_ExitedNil
    /\ race.kind = "dev"
    /\ race.forwarder = "done"
    /\ race.waiter = "done"
    /\ race.delivered = <<"deadline">>
    /\ race.sel = "returned"
    /\ race.result = [port |-> 0, err |-> C35_TimeoutError]


-----------------------------------------------------------------------------
(***************************************************************************)
(* C36.  The sessions of other topics.                                     *)
(***************************************************************************)

\* The steps of StartPreview and of StopPreview, whoever calls it.
C36_StartSteps ==
    {"start_lock", "start_check", "dev_spawn", "dev_select", "pick", "tunnel",
     "ngrok_select", "ts_serve", "ts_funnel", "ts_status", "insert_lock",
     "insert", "go_monitor"}

C36_StopSteps ==
    {"stop_lock", "stop_delete", "stop_tunnel", "stop_dev", "stop_funnel",
     "stop_reset"}

\* Thread t takes a step of a StartPreview or StopPreview for a topic
\* other than that of session l.
C36_ActsOnOther(t, l) ==
    /\ pc[t] \in C36_StartSteps \cup C36_StopSteps
    /\ pc'[t] # pc[t]
    /\ frame[t].topic # <<heap[l].ChatID, heap[l].ThreadID>>

\* The public URL of session l leads to its dev server: the ngrok process
\* runs, or tailscale serves the route and the funnel is on.
C36_Exposed(l) ==
    IF heap[l].Tunnel = S_tailscale
    THEN ts.serve /\ ts.funnel
    ELSE tunProc[heap[l].TunnelCmd].st = "run"

-----------------------------------------------------------------------------
(***************************************************************************)
(* C37.  What a failed StartPreview leaves behind.                         *)
(***************************************************************************)

\* The StartPreview of client t returns an error in this step.
C37_Fails(t) ==
    /\ frame[t].op = "start"
    /\ pc[t] # "done"
    /\ pc'[t] = "done"
    /\ frame'[t].result.err # ""

\* No session but that of t's call has had to do with tailscale: what is
\* switched on there, t's call has switched on.
C37_Alone(t) ==
    /\ \A l \in Launches \ {frame[t].l} : heap[l].Tunnel # S_tailscale
    /\ \A u \in Threads \ {t} : frame[u].tunnel # S_tailscale

-----------------------------------------------------------------------------
(***************************************************************************)
(* C38.  The mutex and the calls that wait for it.  A goroutine that can   *)
(* run is run in the end, and sync.Mutex hands the lock to a goroutine     *)
(* that waits for it: the steps of StopPreview, PreviewStatus, Shutdown    *)
(* and the monitors, and the critical sections of StartPreview, are taken  *)
(* when they stay possible.                                                *)
(***************************************************************************)
Scheduled ==
    \/ Progress
    \/ \E t \in Clients :
          PreviewStatus_Lock(t) \/ Shutdown_Lock(t) \/ Shutdown_Loop(t)

LiveSpec == Spec /\ WF_vars(Scheduled)

\* The step that ends the critical section thread t is in.
C38_Unlocks(t) ==
    \/ StartPreview_Check(t) \/ StartPreview_Insert(t)
    \/ StopPreview_Delete(t)
    \/ PreviewStatus_Read(t) \/ Shutdown_Keys(t)

\* Thread t is inside StopPreview, PreviewStatus or Shutdown.
C38_InCall(t) ==
    pc[t] \in {"stop_lock", "stop_delete", "stop_tunnel", "stop_dev",
               "stop_funnel", "stop_reset", "status_lock", "status_read",
               "shutdown_lock", "shutdown_keys", "shutdown_loop"}

\* C38: no interleaving of StartPreview, StopPreview, PreviewStatus,
\* Shutdown and the monitors deadlocks: whoever holds the mutex can take
\* the step that ends its critical section, and the next step it takes,
\* an early return included, releases the mutex; a thread that starts a
\* monitor does not hold the mutex, and neither does a thread that enters
\* StopPreview; and every StopPreview, PreviewStatus and Shutdown call
\* returns in the end.
C38_NoDeadlock ==
    /\ [](\A t \in Threads : mu = t => ENABLED C38_Unlocks(t))
    /\ [][\A t \in Threads :
             (mu = t /\ pc'[t] # pc[t]) => mu' = NoThread]_vars
    /\ [](\A t \in Threads :
             pc[t] \in {"go_monitor", "stop_lock", "status_lock",
                        "shutdown_lock", "shutdown_loop", "done", "finished"}
                 => mu # t)
    /\ \A t \in Threads : C38_InCall(t) ~> ~C38_InCall(t)

\* A monitor has gone through StopPreview, a client has returned from
\* Shutdown, and the mutex is free.
C38_Witness ==
    /\ \E l \in Launches : pc[Monitor(l)] = "finished"
    /\ \E t \in Clients : pc[t] = "done" /\ frame[t].result.op = "shutdown"
    /\ mu = NoThread

=============================================================================
